---- MODULE Spec2Model ----
(***************************************************************************)
(* Per-address-space virtual memory of the kernel: src/src/context/memory.rs *)
(* UserGrants (grant map + hole map), AddrSpace (mmap, mprotect, munmap,   *)
(* try_clone) and the page-fault handler.                                  *)
(*                                                                         *)
(* Every operation of the source is an operator that maps the state it is  *)
(* given to the state it leaves (and its return value); the actions apply  *)
(* these operators to the variables. One operation of a behaviour, any one, *)
(* is observed: `last` records it with its arguments and result, `pre` the *)
(* state it started from, and the behaviour is followed no further.        *)
(***************************************************************************)
EXTENDS Integers, Sequences, FiniteSets, TLC

\* ------------------------------------------------------------------ bounds
\* Number of user pages: USER_END_OFFSET is UserPages * PAGE_SIZE.
UserPages == 4
\* Number of frames the frame allocator can hand out.
NFrames == 2
\* Number of address spaces that can exist (new_addrspace fails beyond it).
NSpaces == 3
\* Number of operations of one behaviour.
MaxOps == 3
\* Number of entries of st_space, and the largest number a bit field of a
\* floating-point register holds.
StCount == 2
MaxField == 1

\* --------------------------------------------------------------- constants
PAGE_SIZE == 4096
USER_END_OFFSET == UserPages * PAGE_SIZE
MMAP_MIN_DEFAULT == PAGE_SIZE

\* Option<T>: None is the empty sequence, Some(x) the sequence <<x>>.
None == << >>
Some(x) == << x >>
IsSome(o) == o # << >>
Unwrap(o) == o[1]

MaxOf(S) == CHOOSE x \in S : \A y \in S : y <= x
MinOf(S) == CHOOSE x \in S : \A y \in S : x <= y
cmp_max(a, b) == IF a >= b THEN a ELSE b
cmp_min(a, b) == IF a <= b THEN a ELSE b
saturating_sub(a, b) == IF a >= b THEN a - b ELSE 0

\* The keys of a BTreeMap in ascending order (its iteration order).
RECURSIVE Ascending(_)
Ascending(S) ==
    IF S = {} THEN << >>
    ELSE LET m == MinOf(S) IN << m >> \o Ascending(S \ {m})

\* BTreeMap::insert and BTreeMap::remove on a function.
MapInsert(m, k, v) == [x \in (DOMAIN m) \cup {k} |-> IF x = k THEN v ELSE m[x]]
MapRemove(m, k) == [x \in (DOMAIN m) \ {k} |-> m[x]]
EmptyMap == [x \in {} |-> 0]

\* Page <-> VirtualAddress.
start_address(page) == page * PAGE_SIZE
containing_address(addr) == addr \div PAGE_SIZE

\* ---------------------------------------------------------------- PageSpan
PageSpan(base, count) == [base |-> base, count |-> count]
SpanEnd(span) == span.base + span.count
SpanPages(span) == span.base .. (span.base + span.count - 1)

between(start, end) ==
    PageSpan(start, saturating_sub(start_address(end), start_address(start)) \div PAGE_SIZE)

intersection(self, with) ==
    between(cmp_max(self.base, with.base), cmp_min(SpanEnd(self), SpanEnd(with)))

intersects(self, with) == intersection(self, with).count # 0

\* before / after: None when the piece is empty.
before(self, span) ==
    LET reg == between(self.base, span.base)
    IN  IF reg.count # 0 THEN Some(reg) ELSE None

\* after that keeps an empty piece.
after_KeepEmpty(self, span) == Some(between(SpanEnd(span), SpanEnd(self)))

after(self, span) ==
    LET reg == between(SpanEnd(span), SpanEnd(self))
    IN  IF reg.count # 0 THEN Some(reg) ELSE None

\* ------------------------------------------------------------ flags, grants
\* PageFlags: the write and execute bits (user is always set).
PageFlags(w, x) == [write |-> w, execute |-> x]
AllPageFlags == {PageFlags(w, x) : w \in BOOLEAN, x \in BOOLEAN}

\* MapFlags is the set of the flag names that are set.
page_flags(flags) ==
    PageFlags("PROT_WRITE" \in flags, "PROT_EXEC" \in flags)

map_flags(flags) ==
    {"PROT_READ"} \cup (IF flags.write THEN {"PROT_WRITE"} ELSE {})
                  \cup (IF flags.execute THEN {"PROT_EXEC"} ELSE {})

\* Provider: kind plus the fields of the variant (0 where the variant has none).
Allocated == [kind |-> "Allocated", base |-> 0, address_space |-> 0, src_base |-> 0]
PhysBorrowed(frame) == [kind |-> "PhysBorrowed", base |-> frame, address_space |-> 0, src_base |-> 0]
External(space, src) == [kind |-> "External", base |-> 0, address_space |-> space, src_base |-> src]
Fmap == [kind |-> "Fmap", base |-> 0, address_space |-> 0, src_base |-> 0]

GrantInfo(count, flags, provider) ==
    [page_count |-> count, flags |-> flags, mapped |-> TRUE, provider |-> provider]
Grant(base, info) == [base |-> base, info |-> info]
GrantSpan(grant) == PageSpan(grant.base, grant.info.page_count)

\* -------------------------------------------------------------- UserGrants
\* UserGrants::new: no grant, one hole over the whole user range.
UserGrantsNew ==
    [inner |-> EmptyMap, holes |-> MapInsert(EmptyMap, 0, USER_END_OFFSET)]

\* The base of the grant that occupies the page, if any.
contains(ug, page) ==
    LET below == {b \in DOMAIN ug.inner : b <= page}
    IN  IF below = {} THEN None
        ELSE LET base == MaxOf(below)
             IN  IF base <= page /\ page < base + ug.inner[base].page_count
                 THEN Some(base) ELSE None

RECURSIVE TakeWhileIntersects(_, _, _)
TakeWhileIntersects(ug, bases, span) ==
    IF bases = << >> THEN << >>
    ELSE IF intersects(PageSpan(Head(bases), ug.inner[Head(bases)].page_count), span)
         THEN << Head(bases) >> \o TakeWhileIntersects(ug, Tail(bases), span)
         ELSE << >>

\* conflicts that starts its scan at span.base even when a grant that begins
\* earlier contains it.
conflicts_FromBase(ug, span) ==
    TakeWhileIntersects(ug, Ascending({b \in DOMAIN ug.inner : b >= span.base}), span)

\* The bases of the grants that occupy some part of the span, as the iterator
\* yields them.
conflicts(ug, span) ==
    LET start == contains(ug, span.base)
        start_base == IF IsSome(start) THEN Unwrap(start) ELSE span.base
    IN  TakeWhileIntersects(ug, Ascending({b \in DOMAIN ug.inner : b >= start_base}), span)

RECURSIVE SkipWhileBelow(_, _, _)
SkipWhileBelow(holes, offsets, min) ==
    IF offsets = << >> THEN << >>
    ELSE IF Head(offsets) + holes[Head(offsets)] <= min
         THEN SkipWhileBelow(holes, Tail(offsets), min)
         ELSE offsets

avail_size(hole_offset, hole_size, min) ==
    IF hole_offset <= min /\ min <= hole_offset + hole_size
    THEN hole_size - (min - hole_offset)
    ELSE hole_size

RECURSIVE FindHole(_, _, _, _)
FindHole(holes, offsets, min, page_count) ==
    IF offsets = << >> THEN None
    ELSE IF page_count * PAGE_SIZE <= avail_size(Head(offsets), holes[Head(offsets)], min)
         THEN Some(Head(offsets))
         ELSE FindHole(holes, Tail(offsets), min, page_count)

\* find_free that takes the first hole that is large enough, whatever min is.
find_free_IgnoreMin(ug, min, page_count) ==
    LET hole == FindHole(ug.holes, Ascending(DOMAIN ug.holes), 0, page_count)
    IN  IF IsSome(hole) THEN Some(PageSpan(containing_address(Unwrap(hole)), page_count)) ELSE None

find_free(ug, min, page_count) ==
    LET hole == FindHole(ug.holes, SkipWhileBelow(ug.holes, Ascending(DOMAIN ug.holes), min),
                         min, page_count)
    IN  IF IsSome(hole)
        THEN Some(PageSpan(containing_address(cmp_max(Unwrap(hole), min)), page_count))
        ELSE None

Ok(v) == [ok |-> TRUE, val |-> v, err |-> "none"]
Err(e) == [ok |-> FALSE, val |-> PageSpan(0, 0), err |-> e]

find_free_at(ug, min, base, page_count, flags) ==
    IF ~IsSome(base)
    THEN LET f == find_free(ug, min, page_count)
         IN  IF IsSome(f) THEN Ok(Unwrap(f)) ELSE Err("ENOMEM")
    ELSE LET requested_span == PageSpan(Unwrap(base), page_count)
         IN  IF conflicts(ug, requested_span) # << >>
             THEN IF "MAP_FIXED_NOREPLACE" \in flags THEN Err("EEXIST")
                  ELSE IF "MAP_FIXED" \in flags THEN Err("EOPNOTSUPP")
                  ELSE LET f == find_free(ug, min, page_count)
                       IN  IF IsSome(f) THEN Ok(Unwrap(f)) ELSE Err("ENOMEM")
             ELSE Ok(requested_span)

\* The hole that starts last below the address, if any.
previous_hole(holes, address) ==
    LET below == {o \in DOMAIN holes : o < address}
    IN  IF below = {} THEN None ELSE Some(MaxOf(below))

\* reserve that shrinks the previous hole but never inserts the part of it that
\* lies after the grant.
reserve_NoSplit(holes, base, page_count) ==
    LET start == start_address(base)
        size == page_count * PAGE_SIZE
        end == start + size
        prev == previous_hole(holes, start)
        prev_hole_end == IF IsSome(prev) THEN Unwrap(prev) + holes[Unwrap(prev)] ELSE 0
        shrunk == IF IsSome(prev) /\ prev_hole_end > start
                  THEN MapInsert(holes, Unwrap(prev), start - Unwrap(prev))
                  ELSE holes
    IN  IF start \in DOMAIN shrunk
        THEN LET remainder == shrunk[start] - size
                 removed == MapRemove(shrunk, start)
             IN  IF remainder > 0 THEN MapInsert(removed, end, remainder) ELSE removed
        ELSE shrunk

reserve(holes, base, page_count) ==
    LET start == start_address(base)
        size == page_count * PAGE_SIZE
        end == start + size
        prev == previous_hole(holes, start)
        prev_hole_end == IF IsSome(prev) THEN Unwrap(prev) + holes[Unwrap(prev)] ELSE 0
        shrunk == IF IsSome(prev) /\ prev_hole_end > start
                  THEN MapInsert(holes, Unwrap(prev), start - Unwrap(prev))
                  ELSE holes
        split == IF IsSome(prev) /\ prev_hole_end > end
                 THEN MapInsert(shrunk, end, prev_hole_end - end)
                 ELSE shrunk
    IN  IF start \in DOMAIN split
        THEN LET remainder == split[start] - size
                 removed == MapRemove(split, start)
             IN  IF remainder > 0 THEN MapInsert(removed, end, remainder) ELSE removed
        ELSE split

\* unreserve that does not take in the hole directly after the freed region.
unreserve_NoAfter(holes, base, page_count) ==
    LET start == start_address(base)
        size == page_count * PAGE_SIZE
        end == start + size
        prev == previous_hole(holes, start)
    IN  IF IsSome(prev) /\ Unwrap(prev) + holes[Unwrap(prev)] = start
        THEN MapInsert(holes, Unwrap(prev), end - Unwrap(prev))
        ELSE MapInsert(holes, start, size)

unreserve(holes, base, page_count) ==
    LET start == start_address(base)
        size == page_count * PAGE_SIZE
        end == start + size
        exactly_after_size == IF end \in DOMAIN holes THEN holes[end] ELSE 0
        removed == MapRemove(holes, end)
        prev == previous_hole(removed, start)
    IN  IF IsSome(prev) /\ Unwrap(prev) + removed[Unwrap(prev)] = start
        THEN MapInsert(removed, Unwrap(prev), end - Unwrap(prev) + exactly_after_size)
        ELSE MapInsert(removed, start, size + exactly_after_size)

\* UserGrants::insert: the assertion fails (panic) when the grant conflicts.
insert_panics(ug, grant) == conflicts(ug, GrantSpan(grant)) # << >>

\* insert that records the grant and leaves the hole map as it is.
insert_KeepHoles(ug, grant) ==
    [inner |-> MapInsert(ug.inner, grant.base, grant.info), holes |-> ug.holes]

insert(ug, grant) ==
    [inner |-> MapInsert(ug.inner, grant.base, grant.info),
     holes |-> reserve(ug.holes, grant.base, grant.info.page_count)]

\* UserGrants::remove of a base that holds a grant.
remove(ug, base) ==
    [inner |-> MapRemove(ug.inner, base),
     holes |-> unreserve(ug.holes, base, ug.inner[base].page_count)]

\* -------------------------------------------------------------- PageMapper
\* The user page table of one address space: a function from the pages that
\* have an entry to [frame, flags]. Installing an entry always succeeds here
\* (the table's own frames are not counted against NFrames).
PTE(frame, flags) == [frame |-> frame, flags |-> flags]
map_phys(table, page, frame, flags) == MapInsert(table, page, PTE(frame, flags))
unmap_phys(table, page) == MapRemove(table, page)
translate(table, page) == IF page \in DOMAIN table THEN Some(table[page]) ELSE None
mapper_remap(table, page, flags) ==
    IF page \in DOMAIN table THEN MapInsert(table, page, PTE(table[page].frame, flags))
    ELSE table

\* Frames 1..NFrames belong to the frame allocator and have a PageInfo;
\* physically borrowed frames are numbered from PhysFrames up and have none.
AllocFrames == 1..NFrames
PhysFrames == NFrames + 1
has_page_info(frame) == frame \in AllocFrames

\* PageInfo::add_ref / remove_ref: the total count always, the CoW count when
\* the reference is a CoW one.
add_ref(info, frame, cow) ==
    [info EXCEPT ![frame] = [refcount |-> @.refcount + 1,
                             cow_refcount |-> IF cow THEN @.cow_refcount + 1 ELSE @.cow_refcount]]
remove_ref(info, frame, cow) ==
    [info EXCEPT ![frame] = [refcount |-> @.refcount - 1,
                             cow_refcount |-> IF cow THEN @.cow_refcount - 1 ELSE @.cow_refcount]]

\* ------------------------------------------------------------------- Grant
physmap(phys, span, flags) == Grant(span.base, GrantInfo(span.count, flags, PhysBorrowed(phys)))
zeroed(span, flags) == Grant(span.base, GrantInfo(span.count, flags, Allocated))
borrow_grant(src_space, src_base, dst_base, src_info) ==
    Grant(dst_base, GrantInfo(src_info.page_count, src_info.flags, External(src_space, src_base)))

\* Grant::borrow: one destination grant for each source grant that conflicts
\* with [src_base, src_base + page_count). The loop variable src_base (the base
\* of the source grant) shadows the parameter of that name, as in the source.
\* It reaches todo!() on a file-backed source grant.
borrow_panics(src_address_space, src_span) ==
    LET bases == conflicts(src_address_space.grants, src_span)
    IN  \E i \in 1..Len(bases) :
            src_address_space.grants.inner[bases[i]].provider.kind = "Fmap"

RECURSIVE borrow_grants(_, _, _, _, _, _)
borrow_grants(src_address_space_lock, src_address_space, bases, src_span, dst_base, flags) ==
    IF bases = << >> THEN << >>
    ELSE LET src_base == Head(bases)
             src_grant == src_address_space.grants.inner[src_base]
             grant_span == PageSpan(src_base, src_grant.page_count)
             common_span == intersection(src_span, grant_span)
             offset_from_src_base == common_span.base - src_base
             provider ==
                 CASE src_grant.provider.kind = "Allocated" ->
                        External(src_address_space_lock, src_base)
                   [] src_grant.provider.kind = "PhysBorrowed" ->
                        PhysBorrowed(src_grant.provider.base + offset_from_src_base)
                   [] OTHER ->
                        External(src_grant.provider.address_space, src_grant.provider.src_base)
         IN  << Grant(dst_base + offset_from_src_base,
                      GrantInfo(common_span.count, flags, provider)) >>
             \o borrow_grants(src_address_space_lock, src_address_space, Tail(bases),
                              src_span, dst_base, flags)

borrow(src_address_space_lock, src_address_space, src_base, dst_base, page_count, flags) ==
    borrow_grants(src_address_space_lock, src_address_space,
                  conflicts(src_address_space.grants, PageSpan(src_base, page_count)),
                  PageSpan(src_base, page_count), dst_base, flags)

\* Grant::extract: (before, the grant cut down to span, after); it reaches
\* todo!() on a file-backed grant.
extract_panics(grant) == grant.info.provider.kind = "Fmap"

extract_before(grant, span) ==
    LET before_span == before(GrantSpan(grant), span)
    IN  IF IsSome(before_span)
        THEN Some(Grant(Unwrap(before_span).base,
                        [grant.info EXCEPT !.page_count = Unwrap(before_span).count]))
        ELSE None

\* extract that leaves the frame base of the middle piece where the grant's was.
extract_this_KeepBase(grant, span) ==
    Grant(span.base, [grant.info EXCEPT !.page_count = span.count])

extract_this(grant, span) ==
    LET b == extract_before(grant, span)
        skipped == IF IsSome(b) THEN Unwrap(b).info.page_count ELSE 0
        provider == IF grant.info.provider.kind = "PhysBorrowed"
                    THEN PhysBorrowed(grant.info.provider.base + skipped)
                    ELSE grant.info.provider
    IN  Grant(span.base, [grant.info EXCEPT !.page_count = span.count, !.provider = provider])

extract_after(grant, span) ==
    LET after_span == after(GrantSpan(grant), span)
        this == extract_this(grant, span)
        provider == IF this.info.provider.kind = "PhysBorrowed"
                    THEN PhysBorrowed(this.info.provider.base + span.count)
                    ELSE this.info.provider
    IN  IF IsSome(after_span)
        THEN Some(Grant(Unwrap(after_span).base,
                        [grant.info EXCEPT !.page_count = Unwrap(after_span).count,
                                           !.provider = provider]))
        ELSE None

extract(grant, span) ==
    [before |-> extract_before(grant, span),
     this |-> extract_this(grant, span),
     after |-> extract_after(grant, span)]

\* can_have_flags that looks at the write permission only.
can_have_flags_WriteOnly(info, flags) ==
    LET is_downgrade == info.flags.write \/ "PROT_WRITE" \notin flags
    IN  IF info.provider.kind = "Allocated" THEN TRUE ELSE is_downgrade

can_have_flags(info, flags) ==
    LET is_downgrade == (info.flags.write \/ "PROT_WRITE" \notin flags)
                        /\ (info.flags.execute \/ "PROT_EXEC" \notin flags)
    IN  IF info.provider.kind = "Allocated" THEN TRUE ELSE is_downgrade

\* Grant::remap: every entry the grant has in the table takes the new flags.
RECURSIVE remap_pages(_, _, _)
remap_pages(table, pages, flags) ==
    IF pages = << >> THEN table
    ELSE remap_pages(mapper_remap(table, Head(pages), flags), Tail(pages), flags)

grant_remap(grant, table, flags) ==
    [grant |-> [grant EXCEPT !.info.flags = flags],
     table |-> remap_pages(table, Ascending(SpanPages(GrantSpan(grant))), flags)]

\* Grant::unmap: every entry the grant has in the table is removed; the frame's
\* reference counts are left as they are.
RECURSIVE unmap_pages(_, _)
unmap_pages(table, pages) ==
    IF pages = << >> THEN table
    ELSE unmap_pages(unmap_phys(table, Head(pages)), Tail(pages))

\* unmap that leaves the page table as it is.
grant_unmap_KeepPTEs(grant, table) == table

grant_unmap(grant, table) == unmap_pages(table, Ascending(SpanPages(GrantSpan(grant))))

\* Flush tokens, named by the page whose entry changed. Grant::remap and
\* Grant::unmap get one from the mapper for every present entry of the grant
\* and hand each to the flusher at once. Grant::cow gets one from remap_with
\* for every present entry of the source, binds it to `flush`, and hands only
\* the result of the destination's map_phys to dst_flusher: src_flusher is
\* never given anything.
remap_flush(table, pages) ==
    LET results == {page \in pages : IsSome(translate(table, page))}
    IN  [produced |-> results, consumed |-> results]

unmap_flush(table, pages) ==
    LET results == {page \in pages : IsSome(translate(table, page))}
    IN  [produced |-> results, consumed |-> results]

cow_flush(src_table, pages) ==
    [produced |-> {src_page \in pages : IsSome(translate(src_table, src_page))},
     consumed |-> {}]

\* --------------------------------------------------------------- AddrSpace
AddrSpaceNew == [table |-> EmptyMap, grants |-> UserGrantsNew, mmap_min |-> MMAP_MIN_DEFAULT]

insert_opt(ug, grant_opt) == IF IsSome(grant_opt) THEN insert(ug, Unwrap(grant_opt)) ELSE ug

\* The spans of the grants that conflict with the requested span.
regions_of(ug, span) ==
    LET bases == conflicts(ug, span)
    IN  [i \in 1..Len(bases) |-> PageSpan(bases[i], ug.inner[bases[i]].page_count)]

\* New flags that can gain execute permission but never lose it.
mprotect_new_flags_KeepExec(info, flags) ==
    PageFlags("PROT_WRITE" \in flags, info.flags.execute \/ "PROT_EXEC" \in flags)

mprotect_new_flags(info, flags) == PageFlags("PROT_WRITE" \in flags, "PROT_EXEC" \in flags)

RECURSIVE mprotect_regions(_, _, _, _)
mprotect_regions(as, regions, requested_span, flags) ==
    IF regions = << >> THEN [as |-> as, result |-> "Ok"]
    ELSE LET grant_span == Head(regions)
             grant == Grant(grant_span.base, as.grants.inner[grant_span.base])
             removed == remove(as.grants, grant_span.base)
             ex == extract(grant, intersection(grant_span, requested_span))
             outer == insert_opt(insert_opt(removed, ex.before), ex.after)
         IN  IF extract_panics(grant) THEN [as |-> as, result |-> "panic"]
             ELSE IF ~can_have_flags(ex.this.info, flags)
             THEN [as |-> [as EXCEPT !.grants = insert(outer, ex.this)], result |-> "EACCES"]
             ELSE LET re == grant_remap(ex.this, as.table, mprotect_new_flags(ex.this.info, flags))
                  IN  mprotect_regions([as EXCEPT !.grants = insert(outer, re.grant),
                                                  !.table = re.table],
                                       Tail(regions), requested_span, flags)

mprotect(as, requested_span, flags) ==
    mprotect_regions(as, regions_of(as.grants, requested_span), requested_span, flags)

RECURSIVE munmap_regions(_, _, _)
munmap_regions(as, conflicting, requested_span) ==
    IF conflicting = << >> THEN [as |-> as, result |-> "Ok"]
    ELSE LET conflict == Head(conflicting)
             grant == Grant(conflict.base, as.grants.inner[conflict.base])
             removed == remove(as.grants, conflict.base)
             ex == extract(grant, intersection(conflict, requested_span))
             outer == insert_opt(insert_opt(removed, ex.before), ex.after)
         IN  IF extract_panics(grant) THEN [as |-> as, result |-> "panic"]
             ELSE munmap_regions([as EXCEPT !.grants = outer,
                                            !.table = grant_unmap(ex.this, as.table)],
                                 Tail(conflicting), requested_span)

munmap(as, requested_span) ==
    munmap_regions(as, regions_of(as.grants, requested_span), requested_span)

\* The (provider, intersection) pairs munmap has pushed to notify_files when
\* its loop ends; after the write lock is dropped, each is forwarded to the
\* scheme with funmap and its descriptor is closed. Nothing is forwarded when
\* the loop panics.
RECURSIVE notify_files_of(_, _, _)
notify_files_of(as, conflicting, requested_span) ==
    IF conflicting = << >> THEN << >>
    ELSE LET conflict == Head(conflicting)
             grant == Grant(conflict.base, as.grants.inner[conflict.base])
             ex == extract(grant, intersection(conflict, requested_span))
         IN  (IF ex.this.info.provider.kind = "Fmap"
              THEN << [provider |-> ex.this.info.provider,
                       intersection |-> intersection(conflict, requested_span)] >>
              ELSE << >>)
             \o notify_files_of(as, Tail(conflicting), requested_span)

munmap_notify_files(as, requested_span) ==
    IF munmap(as, requested_span).result = "Ok"
    THEN notify_files_of(as, regions_of(as.grants, requested_span), requested_span)
    ELSE << >>

\* The compiler-generated drop of an AddrSpace (the type has no Drop of its
\* own): the fields are dropped in the order of their declaration, table
\* first, which deallocates the page-table frame without walking any entry,
\* then grants, where the drop of every GrantInfo asserts that the grant is no
\* longer mapped. No grant is unmapped on the way. events lists what happened
\* in order.
drop_addrspace(as) ==
    LET table_events == << "table_released" >>
        panics == \E base \in DOMAIN as.grants.inner : as.grants.inner[base].mapped
    IN  [result |-> IF panics THEN "panic" ELSE "Ok",
         events |-> table_events,
         grants |-> as.grants.inner]

\* ------------------------------------------------- floating-point registers
\* A u128 of st_space is kept as its two bit fields: reserved, the upper 48
\* bits that ST_RESERVED selects, and low, the 80 bits below them; each field
\* holds the number its bits spell, drawn from 0..MaxField. FloatRegisters is
\* kept as st_space (StCount entries) and _reserved; set_fx_regs stores every
\* other field as the caller gave it.
U128(reserved, low) == [reserved |-> reserved, low |-> low]
FloatRegisters(st_space, reserved) == [st_space |-> st_space, reserved |-> reserved]

RECURSIVE BitOr(_, _)
BitOr(a, b) ==
    IF a = 0 THEN b
    ELSE IF b = 0 THEN a
    ELSE cmp_max(a % 2, b % 2) + 2 * BitOr(a \div 2, b \div 2)

\* x & ST_RESERVED, x & !ST_RESERVED, x | y
and_st_reserved(x) == U128(x.reserved, 0)
and_not_st_reserved(x) == U128(0, x.low)
bit_or(x, y) == U128(BitOr(x.reserved, y.reserved), BitOr(x.low, y.low))

get_fx_regs(self_kfx) ==
    FloatRegisters([i \in DOMAIN self_kfx.st_space |-> and_not_st_reserved(self_kfx.st_space[i])], 0)

\* set_fx_regs: old_st is read from new.st_space, as in the source.
set_fx_regs(self_kfx, new) ==
    LET old == self_kfx
        old_st == new.st_space
    IN  FloatRegisters([i \in DOMAIN new.st_space |->
                           bit_or(and_not_st_reserved(new.st_space[i]), and_st_reserved(old_st[i]))],
                       old.reserved)

KfxNew == FloatRegisters([i \in 1..StCount |-> U128(0, 0)], 0)

\* ------------------------------------------------------------ global state
\* st.spaces: the address spaces that exist, by identity; st.page_info: the
\* PageInfo of every allocator frame; st.allocated: how many frames the
\* allocator has handed out (frame k is handed out k-th).
State(spaces, info, allocated) == [spaces |-> spaces, page_info |-> info, allocated |-> allocated]

PageInfoNew == [f \in AllocFrames |-> [refcount |-> 0, cow_refcount |-> 0]]

\* The closure mmap is given: which Grant constructor it calls, and with what.
Builder(kind, phys, src, src_base) ==
    [kind |-> kind, phys |-> phys, src |-> src, src_base |-> src_base]

build(st, builder, base, page_count, flags) ==
    CASE builder.kind = "zeroed" -> Ok(zeroed(PageSpan(base, page_count), flags))
      [] builder.kind = "physmap" -> Ok(physmap(builder.phys, PageSpan(base, page_count), flags))
      [] builder.kind = "borrow_grant" ->
            Ok(borrow_grant(builder.src, builder.src_base, base,
                            st.spaces[builder.src].grants.inner[builder.src_base]))
      [] builder.kind = "fmap" -> Ok(Grant(base, GrantInfo(page_count, flags, Fmap)))
      [] OTHER -> [ok |-> FALSE, val |-> zeroed(PageSpan(0, 0), flags), err |-> "ENOMEM"]

\* The closure mmap_multiple is given: the grants of Grant::borrow for the
\* kind "borrow", the one grant of the constructor otherwise.
build_multiple(st, builder, base, page_count, flags) ==
    IF builder.kind = "borrow"
    THEN borrow(builder.src, st.spaces[builder.src], builder.src_base, base, page_count, flags)
    ELSE << build(st, builder, base, page_count, flags).val >>
build_multiple_panics(st, builder, page_count) ==
    /\ builder.kind = "borrow"
    /\ borrow_panics(st.spaces[builder.src], PageSpan(builder.src_base, page_count))

\* The loop of mmap_multiple over the grants: each is inserted, and the
\* assertion of insert fails on the first one that conflicts.
RECURSIVE insert_all(_, _)
insert_all(ug, grants) ==
    IF grants = << >> THEN [ug |-> ug, panic |-> FALSE]
    ELSE IF insert_panics(ug, Head(grants)) THEN [ug |-> ug, panic |-> TRUE]
    ELSE insert_all(insert(ug, Head(grants)), Tail(grants))

\* mmap that takes the selected span out of the hole map before it runs the
\* builder, and keeps it out when the builder fails.
mmap_ReserveEarly(st, s, page, page_count, flags, builder) ==
    LET as == st.spaces[s]
        selected == find_free_at(as.grants, as.mmap_min, page, page_count, flags)
        built == build(st, builder, selected.val.base, page_count, page_flags(flags))
    IN  IF ~selected.ok THEN [st |-> st, result |-> selected.err, base |-> 0]
        ELSE IF ~built.ok
        THEN [st |-> [st EXCEPT !.spaces[s].grants.holes =
                                    reserve(as.grants.holes, selected.val.base, page_count)],
              result |-> built.err, base |-> 0]
        ELSE IF insert_panics(as.grants, built.val) THEN [st |-> st, result |-> "panic", base |-> 0]
        ELSE [st |-> [st EXCEPT !.spaces[s].grants = insert(as.grants, built.val)],
              result |-> "Ok", base |-> selected.val.base]

\* AddrSpace::mmap (mmap_multiple with the one grant the builder returns).
mmap(st, s, page, page_count, flags, builder) ==
    LET as == st.spaces[s]
        selected == find_free_at(as.grants, as.mmap_min, page, page_count, flags)
        built == build(st, builder, selected.val.base, page_count, page_flags(flags))
    IN  IF ~selected.ok THEN [st |-> st, result |-> selected.err, base |-> 0]
        ELSE IF ~built.ok THEN [st |-> st, result |-> built.err, base |-> 0]
        ELSE IF insert_panics(as.grants, built.val) THEN [st |-> st, result |-> "panic", base |-> 0]
        ELSE [st |-> [st EXCEPT !.spaces[s].grants = insert(as.grants, built.val)],
              result |-> "Ok", base |-> selected.val.base]

\* AddrSpace::mmap_multiple: every grant the closure returns is inserted.
mmap_multiple(st, s, page, page_count, flags, builder) ==
    LET as == st.spaces[s]
        selected == find_free_at(as.grants, as.mmap_min, page, page_count, flags)
        grants == build_multiple(st, builder, selected.val.base, page_count, page_flags(flags))
        inserted == insert_all(as.grants, grants)
    IN  IF ~selected.ok THEN [st |-> st, result |-> selected.err, base |-> 0]
        ELSE IF build_multiple_panics(st, builder, page_count)
        THEN [st |-> st, result |-> "panic", base |-> 0]
        ELSE IF inserted.panic
        THEN [st |-> [st EXCEPT !.spaces[s].grants = inserted.ug], result |-> "panic", base |-> 0]
        ELSE [st |-> [st EXCEPT !.spaces[s].grants = inserted.ug],
              result |-> "Ok", base |-> selected.val.base]

\* Grant::cow that leaves the source PTE with the flags it had.
RECURSIVE cow_pages_NoDowngrade(_, _, _, _, _)
cow_pages_NoDowngrade(src_table, dst_table, info, pages, flags) ==
    IF pages = << >> THEN [src |-> src_table, dst |-> dst_table, info |-> info, panic |-> FALSE]
    ELSE LET page == Head(pages)
         IN  IF page \notin DOMAIN src_table
             THEN cow_pages_NoDowngrade(src_table, dst_table, info, Tail(pages), flags)
             ELSE LET frame == src_table[page].frame
                  IN  IF ~has_page_info(frame)
                      THEN [src |-> src_table, dst |-> dst_table, info |-> info, panic |-> TRUE]
                      ELSE cow_pages_NoDowngrade(src_table,
                                     map_phys(dst_table, page, frame, [flags EXCEPT !.write = FALSE]),
                                     add_ref(info, frame, TRUE), Tail(pages), flags)

\* Grant::cow: every mapped source page loses write permission, its frame gains
\* a CoW reference and the destination maps it read-only.
RECURSIVE cow_pages(_, _, _, _, _)
cow_pages(src_table, dst_table, info, pages, flags) ==
    IF pages = << >> THEN [src |-> src_table, dst |-> dst_table, info |-> info, panic |-> FALSE]
    ELSE LET page == Head(pages)
         IN  IF page \notin DOMAIN src_table
             THEN cow_pages(src_table, dst_table, info, Tail(pages), flags)
             ELSE LET frame == src_table[page].frame
                      src2 == MapInsert(src_table, page,
                                        PTE(frame, [src_table[page].flags EXCEPT !.write = FALSE]))
                  IN  IF ~has_page_info(frame)
                      THEN [src |-> src2, dst |-> dst_table, info |-> info, panic |-> TRUE]
                      ELSE cow_pages(src2,
                                     map_phys(dst_table, page, frame, [flags EXCEPT !.write = FALSE]),
                                     add_ref(info, frame, TRUE), Tail(pages), flags)

\* AddrSpace::try_clone, one source grant after the other in ascending order.
RECURSIVE try_clone_grants(_, _, _, _, _)
try_clone_grants(this, new, info, bases, self_arc) ==
    IF bases = << >> THEN [this |-> this, new |-> new, info |-> info, result |-> "Ok"]
    ELSE LET grant_base == Head(bases)
             grant_info == this.grants.inner[grant_base]
             kind == grant_info.provider.kind
         IN  CASE kind = "PhysBorrowed" ->
                    try_clone_grants(this,
                        [new EXCEPT !.grants = insert(@, physmap(grant_info.provider.base,
                                 PageSpan(grant_base, grant_info.page_count), grant_info.flags))],
                        info, Tail(bases), self_arc)
               [] kind = "Allocated" ->
                    LET c == cow_pages(this.table, new.table, info,
                                       Ascending(SpanPages(PageSpan(grant_base, grant_info.page_count))),
                                       grant_info.flags)
                    IN  IF c.panic THEN [this |-> this, new |-> new, info |-> info, result |-> "panic"]
                        ELSE try_clone_grants([this EXCEPT !.table = c.src],
                                 [new EXCEPT !.table = c.dst,
                                             !.grants = insert(@, Grant(grant_base,
                                                 GrantInfo(grant_info.page_count, grant_info.flags, Allocated)))],
                                 c.info, Tail(bases), self_arc)
               [] kind = "External" ->
                    try_clone_grants(this,
                        [new EXCEPT !.grants = insert(@, borrow_grant(grant_info.provider.address_space,
                                 grant_base, grant_base, grant_info))],
                        info, Tail(bases), self_arc)
               [] OTHER -> [this |-> this, new |-> new, info |-> info, result |-> "panic"]

new_space_id(st) == MaxOf(DOMAIN st.spaces) + 1

\* new_addrspace: a fresh address space, or ENOMEM.
new_addrspace(st) ==
    IF Cardinality(DOMAIN st.spaces) >= NSpaces THEN [st |-> st, result |-> "ENOMEM"]
    ELSE [st |-> [st EXCEPT !.spaces = MapInsert(@, new_space_id(st), AddrSpaceNew)],
          result |-> "Ok"]

try_clone(st, s) ==
    IF Cardinality(DOMAIN st.spaces) >= NSpaces THEN [st |-> st, result |-> "ENOMEM"]
    ELSE LET r == try_clone_grants(st.spaces[s], AddrSpaceNew, st.page_info,
                                   Ascending(DOMAIN st.spaces[s].grants.inner), s)
         IN  IF r.result # "Ok" THEN [st |-> st, result |-> r.result]
             ELSE [st |-> State(MapInsert(MapInsert(st.spaces, s, r.this), new_space_id(st), r.new),
                                r.info, st.allocated),
                   result |-> "Ok"]

\* ------------------------------------------------------------ fault handler
can_allocate(st) == st.allocated < NFrames
\* init_frame: the next frame of the allocator, with both counts set to 1.
init_frame(st) ==
    [st EXCEPT !.allocated = @ + 1,
               !.page_info[st.allocated + 1] = [refcount |-> 1, cow_refcount |-> 1]]
new_frame_of(st) == st.allocated + 1

\* cow that keeps the reference to the old frame.
fault_cow_KeepRef(st, old_frame) == init_frame(st)

\* cow (of the fault handler): a fresh frame takes the place of old_frame, which
\* loses one CoW reference.
fault_cow(st, old_frame) == [init_frame(st) EXCEPT !.page_info = remove_ref(@, old_frame, TRUE)]

\* map_zeroed: a fresh frame mapped at the page with the flags given.
map_zeroed(st, s, page, flags) ==
    [init_frame(st) EXCEPT !.spaces[s].table = map_phys(@, page, new_frame_of(st), flags)]

\* The frame the handler chooses and the state it leaves before the final
\* map_phys: [st, frame, allow_writable, result].
Chosen(st, frame, allow_writable) ==
    [st |-> st, frame |-> frame, allow_writable |-> allow_writable, result |-> "Ok"]
Failed(st, result) ==
    [st |-> st, frame |-> 0, allow_writable |-> TRUE, result |-> result]

\* The frame choice that maps the first frame of a PhysBorrowed grant at every
\* page of the grant.
fault_frame_PhysBase(st, s, grant_base, grant_info, faulting_page, access) ==
    LET table == st.spaces[s].table
        mapped == translate(table, faulting_page)
        frame == Unwrap(mapped).frame
        kind == grant_info.provider.kind
        pages_from_grant_start == faulting_page - grant_base
    IN  CASE kind = "Allocated" /\ access = "Write" ->
               IF IsSome(mapped)
               THEN IF ~has_page_info(frame) THEN Failed(st, "panic")
                    ELSE IF st.page_info[frame].cow_refcount = 1 THEN Chosen(st, frame, TRUE)
                    ELSE IF ~can_allocate(st) THEN Failed(st, "Oom")
                    ELSE Chosen(fault_cow(st, frame), new_frame_of(st), TRUE)
               ELSE IF ~can_allocate(st) THEN Failed(st, "Oom")
                    ELSE Chosen(map_zeroed(st, s, faulting_page, grant_info.flags),
                                new_frame_of(st), TRUE)
          [] kind = "Allocated" /\ access # "Write" ->
               IF IsSome(mapped)
               THEN IF ~has_page_info(frame) THEN Failed(st, "panic")
                    ELSE Chosen(st, frame, st.page_info[frame].cow_refcount = 1)
               ELSE IF ~can_allocate(st) THEN Failed(st, "Oom")
                    ELSE Chosen(map_zeroed(st, s, faulting_page, grant_info.flags),
                                new_frame_of(st), TRUE)
          [] kind = "PhysBorrowed" ->
               Chosen(st, grant_info.provider.base, TRUE)
          [] kind = "External" ->
               LET foreign == grant_info.provider.address_space
                   src_page == grant_info.provider.src_base + pages_from_grant_start
                   src == translate(st.spaces[foreign].table, src_page)
               IN  IF foreign = s THEN Failed(st, "deadlock")
                   ELSE IF IsSome(src)
                   THEN IF ~has_page_info(Unwrap(src).frame) THEN Failed(st, "panic")
                        ELSE Chosen([st EXCEPT !.page_info = add_ref(@, Unwrap(src).frame, FALSE)],
                                    Unwrap(src).frame, TRUE)
                   ELSE IF ~can_allocate(st) THEN Failed(st, "Oom")
                        ELSE Chosen(map_zeroed(st, s, src_page, grant_info.flags),
                                    new_frame_of(st), TRUE)
          [] OTHER -> Failed(st, "panic")

fault_frame(st, s, grant_base, grant_info, faulting_page, access) ==
    LET table == st.spaces[s].table
        mapped == translate(table, faulting_page)
        frame == Unwrap(mapped).frame
        kind == grant_info.provider.kind
        pages_from_grant_start == faulting_page - grant_base
    IN  CASE kind = "Allocated" /\ access = "Write" ->
               IF IsSome(mapped)
               THEN IF ~has_page_info(frame) THEN Failed(st, "panic")
                    ELSE IF st.page_info[frame].cow_refcount = 1 THEN Chosen(st, frame, TRUE)
                    ELSE IF ~can_allocate(st) THEN Failed(st, "Oom")
                    ELSE Chosen(fault_cow(st, frame), new_frame_of(st), TRUE)
               ELSE IF ~can_allocate(st) THEN Failed(st, "Oom")
                    ELSE Chosen(map_zeroed(st, s, faulting_page, grant_info.flags),
                                new_frame_of(st), TRUE)
          [] kind = "Allocated" /\ access # "Write" ->
               IF IsSome(mapped)
               THEN IF ~has_page_info(frame) THEN Failed(st, "panic")
                    ELSE Chosen(st, frame, st.page_info[frame].cow_refcount = 1)
               ELSE IF ~can_allocate(st) THEN Failed(st, "Oom")
                    ELSE Chosen(map_zeroed(st, s, faulting_page, grant_info.flags),
                                new_frame_of(st), TRUE)
          [] kind = "PhysBorrowed" ->
               Chosen(st, grant_info.provider.base + pages_from_grant_start, TRUE)
          [] kind = "External" ->
               LET foreign == grant_info.provider.address_space
                   src_page == grant_info.provider.src_base + pages_from_grant_start
                   src == translate(st.spaces[foreign].table, src_page)
               IN  IF foreign = s THEN Failed(st, "deadlock")
                   ELSE IF IsSome(src)
                   THEN IF ~has_page_info(Unwrap(src).frame) THEN Failed(st, "panic")
                        ELSE Chosen([st EXCEPT !.page_info = add_ref(@, Unwrap(src).frame, FALSE)],
                                    Unwrap(src).frame, TRUE)
                   ELSE IF ~can_allocate(st) THEN Failed(st, "Oom")
                        ELSE Chosen(map_zeroed(st, s, src_page, grant_info.flags),
                                    new_frame_of(st), TRUE)
          [] OTHER -> Failed(st, "panic")

\* The context that faults has no address space (AddrSpace::current fails).
NoAddrSpace == 0

\* try_correcting_page_tables that installs the grant's flags whatever the
\* CoW count of the frame.
try_correcting_page_tables_GrantFlags(st, s, faulting_page, access) ==
    LET found == contains(st.spaces[s].grants, faulting_page)
        grant_base == Unwrap(found)
        grant_info == st.spaces[s].grants.inner[grant_base]
        grant_flags == grant_info.flags
        c == fault_frame(st, s, grant_base, grant_info, faulting_page, access)
    IN  IF s \notin DOMAIN st.spaces THEN [st |-> st, result |-> "Segv"]
        ELSE IF ~IsSome(found) THEN [st |-> st, result |-> "Segv"]
        ELSE IF access = "Write" /\ ~grant_flags.write THEN [st |-> st, result |-> "Segv"]
        ELSE IF access = "InstrFetch" /\ ~grant_flags.execute THEN [st |-> st, result |-> "Segv"]
        ELSE IF c.result # "Ok" THEN [st |-> c.st, result |-> c.result]
        ELSE [st |-> [c.st EXCEPT !.spaces[s].table = map_phys(@, faulting_page, c.frame, grant_flags)],
              result |-> "Ok"]

\* try_correcting_page_tables that does not check instruction fetches against
\* the execute permission of the grant.
try_correcting_page_tables_NoExecCheck(st, s, faulting_page, access) ==
    LET found == contains(st.spaces[s].grants, faulting_page)
        grant_base == Unwrap(found)
        grant_info == st.spaces[s].grants.inner[grant_base]
        grant_flags == grant_info.flags
        c == fault_frame(st, s, grant_base, grant_info, faulting_page, access)
        new_flags == [grant_flags EXCEPT !.write = grant_flags.write /\ c.allow_writable]
    IN  IF s \notin DOMAIN st.spaces THEN [st |-> st, result |-> "Segv"]
        ELSE IF ~IsSome(found) THEN [st |-> st, result |-> "Segv"]
        ELSE IF access = "Write" /\ ~grant_flags.write THEN [st |-> st, result |-> "Segv"]
        ELSE IF c.result # "Ok" THEN [st |-> c.st, result |-> c.result]
        ELSE [st |-> [c.st EXCEPT !.spaces[s].table = map_phys(@, faulting_page, c.frame, new_flags)],
              result |-> "Ok"]

try_correcting_page_tables(st, s, faulting_page, access) ==
    LET found == contains(st.spaces[s].grants, faulting_page)
        grant_base == Unwrap(found)
        grant_info == st.spaces[s].grants.inner[grant_base]
        grant_flags == grant_info.flags
        c == fault_frame(st, s, grant_base, grant_info, faulting_page, access)
        new_flags == [grant_flags EXCEPT !.write = grant_flags.write /\ c.allow_writable]
    IN  IF s \notin DOMAIN st.spaces THEN [st |-> st, result |-> "Segv"]
        ELSE IF ~IsSome(found) THEN [st |-> st, result |-> "Segv"]
        ELSE IF access = "Write" /\ ~grant_flags.write THEN [st |-> st, result |-> "Segv"]
        ELSE IF access = "InstrFetch" /\ ~grant_flags.execute THEN [st |-> st, result |-> "Segv"]
        ELSE IF c.result # "Ok" THEN [st |-> c.st, result |-> c.result]
        ELSE [st |-> [c.st EXCEPT !.spaces[s].table = map_phys(@, faulting_page, c.frame, new_flags)],
              result |-> "Ok"]

\* The address space whose read lock the handler takes after the write lock of
\* its own: the address_space of the External grant at the faulting page, when
\* the handler gets as far as the provider match.
fault_foreign(st, s, faulting_page, access) ==
    LET found == contains(st.spaces[s].grants, faulting_page)
        grant_info == st.spaces[s].grants.inner[Unwrap(found)]
    IN  IF s \notin DOMAIN st.spaces THEN None
        ELSE IF ~IsSome(found) THEN None
        ELSE IF access = "Write" /\ ~grant_info.flags.write THEN None
        ELSE IF access = "InstrFetch" /\ ~grant_info.flags.execute THEN None
        ELSE IF grant_info.provider.kind = "External" THEN Some(grant_info.provider.address_space)
        ELSE None

\* ------------------------------------------------------------------- state
VARIABLES
    addr_spaces,    \* the AddrSpace of every address space that exists
    page_info,      \* refcount and cow_refcount of every allocator frame
    allocated,      \* number of frames the allocator has handed out
    last,           \* the observed operation: arguments and result
    pre,            \* the state the observed operation started from
    panicked,       \* the kernel has panicked (or spins on a lock for ever)
    nops,           \* number of AddrSpace operations so far
    handlers,       \* per address space: where the page-fault handler of its context is
    kfx             \* the floating-point state a context has saved (x86_64)

vars == << addr_spaces, page_info, allocated, last, pre, panicked, nops, handlers, kfx >>

St == State(addr_spaces, page_info, allocated)

\* A handler is idle, or it holds the write lock of its own address space and
\* is about to take the read lock of the foreign one for the page it handles.
Idle == [pc |-> "idle", page |-> 0, access |-> "none", foreign |-> 0]
NoHandlers == [s \in 1..NSpaces |-> Idle]

NoBuilder == Builder("none", 0, 0, 0)
Op(op, s, page, span, flags, builder, access, result, ret) ==
    [op |-> op, s |-> s, page |-> page, span |-> span, flags |-> flags,
     builder |-> builder, access |-> access, result |-> result, ret |-> ret]

Init ==
    /\ addr_spaces = MapInsert(EmptyMap, 1, AddrSpaceNew)
    /\ page_info = PageInfoNew
    /\ allocated = 0
    /\ last = Op("new", 1, None, PageSpan(0, 0), {}, NoBuilder, "none", "Ok", None)
    /\ pre = State(MapInsert(EmptyMap, 1, AddrSpaceNew), PageInfoNew, 0)
    /\ panicked = FALSE
    /\ nops = 0
    /\ handlers = NoHandlers
    /\ kfx = KfxNew

Halts(result) == result \in {"panic", "deadlock"}

\* No operation has been observed yet.
Running == last.op = "new"

\* The operation leaves state st2; it is observed (recorded as op), or not.
Step(st2, op) ==
    /\ Running
    /\ addr_spaces' = st2.spaces
    /\ page_info' = st2.page_info
    /\ allocated' = st2.allocated
    /\ panicked' = Halts(op.result)
    /\ \/ last' = op /\ pre' = St
       \/ UNCHANGED << last, pre >>
    /\ UNCHANGED << handlers, kfx >>

\* ------------------------------------------------- actions on one UserGrants
UG == addr_spaces[1].grants
WithUG(ug) == [St EXCEPT !.spaces[1].grants = ug]

UGInsert(grant) ==
    /\ ~panicked
    /\ IF insert_panics(UG, grant)
       THEN Step(St, Op("insert", 1, None, GrantSpan(grant), {}, NoBuilder, "none", "panic", None))
       ELSE Step(WithUG(insert(UG, grant)),
                 Op("insert", 1, None, GrantSpan(grant), {}, NoBuilder, "none", "Ok", None))
    /\ UNCHANGED nops

UGRemove(base) ==
    /\ ~panicked
    /\ IF base \in DOMAIN UG.inner
       THEN Step(WithUG(remove(UG, base)),
                 Op("remove", 1, Some(base), PageSpan(base, UG.inner[base].page_count), {},
                    NoBuilder, "none", "Some", None))
       ELSE Step(St, Op("remove", 1, Some(base), PageSpan(base, 0), {}, NoBuilder, "none", "None", None))
    /\ UNCHANGED nops

\* find_free(min, page_count): last.page holds min as Some(min).
UGFindFree(min, page_count) ==
    /\ ~panicked
    /\ LET r == find_free(UG, min, page_count)
       IN  Step(St, Op("find_free", 1, Some(min), PageSpan(0, page_count), {}, NoBuilder, "none",
                       IF IsSome(r) THEN "Some" ELSE "None", r))
    /\ UNCHANGED nops

\* find_free_at(min, base, page_count, flags): min is the address space's
\* mmap_min, last.page holds base.
UGFindFreeAt(base, page_count, flags) ==
    /\ ~panicked
    /\ LET r == find_free_at(UG, addr_spaces[1].mmap_min, base, page_count, flags)
       IN  Step(St, Op("find_free_at", 1, base, PageSpan(0, page_count), flags, NoBuilder, "none",
                       IF r.ok THEN "Ok" ELSE r.err, IF r.ok THEN Some(r.val) ELSE None))
    /\ UNCHANGED nops

\* --------------------------------------------------- actions on AddrSpaces
Mmap(s, page, page_count, flags, builder) ==
    /\ ~panicked /\ nops < MaxOps
    /\ s \in DOMAIN addr_spaces
    /\ LET r == mmap(St, s, page, page_count, flags, builder)
       IN  Step(r.st, Op("mmap", s, page, PageSpan(r.base, page_count), flags, builder, "none",
                         r.result, IF r.result = "Ok" THEN Some(r.base) ELSE None))
    /\ nops' = nops + 1

\* mmap_multiple with Grant::borrow from another address space, whose lock the
\* caller holds for reading.
MmapMultiple(s, page, page_count, flags, builder) ==
    /\ ~panicked /\ nops < MaxOps
    /\ s \in DOMAIN addr_spaces
    /\ builder.kind = "borrow" /\ builder.src \in DOMAIN addr_spaces /\ builder.src # s
    /\ LET r == mmap_multiple(St, s, page, page_count, flags, builder)
       IN  Step(r.st, Op("mmap_multiple", s, page, PageSpan(r.base, page_count), flags, builder,
                         "none", r.result, IF r.result = "Ok" THEN Some(r.base) ELSE None))
    /\ nops' = nops + 1

Mprotect(s, requested_span, flags) ==
    /\ ~panicked /\ nops < MaxOps
    /\ s \in DOMAIN addr_spaces
    /\ LET r == mprotect(addr_spaces[s], requested_span, flags)
       IN  Step([St EXCEPT !.spaces[s] = r.as],
                Op("mprotect", s, None, requested_span, flags, NoBuilder, "none", r.result, None))
    /\ nops' = nops + 1

Munmap(s, requested_span) ==
    /\ ~panicked /\ nops < MaxOps
    /\ s \in DOMAIN addr_spaces
    /\ LET r == munmap(addr_spaces[s], requested_span)
       IN  Step([St EXCEPT !.spaces[s] = r.as],
                Op("munmap", s, None, requested_span, {}, NoBuilder, "none", r.result, None))
    /\ nops' = nops + 1

TryClone(s) ==
    /\ ~panicked /\ nops < MaxOps
    /\ s \in DOMAIN addr_spaces
    /\ LET r == try_clone(St, s)
       IN  Step(r.st, Op("try_clone", s, None, PageSpan(0, 0), {}, NoBuilder, "none", r.result,
                         IF r.result = "Ok" THEN Some(new_space_id(St)) ELSE None))
    /\ nops' = nops + 1

NewAddrSpace ==
    /\ ~panicked
    /\ Cardinality(DOMAIN addr_spaces) < NSpaces
    /\ LET r == new_addrspace(St)
       IN  Step(r.st, Op("new_addrspace", new_space_id(St), None, PageSpan(0, 0), {}, NoBuilder,
                         "none", r.result, None))
    /\ UNCHANGED nops

Fault(s, faulting_page, access) ==
    /\ ~panicked /\ nops < MaxOps
    /\ s \in DOMAIN addr_spaces \cup {NoAddrSpace}
    /\ LET r == try_correcting_page_tables(St, s, faulting_page, access)
       IN  Step(r.st, Op("fault", s, Some(faulting_page), PageSpan(faulting_page, 1), {},
                         NoBuilder, access, r.result, None))
    /\ nops' = nops + 1

\* The write lock of address space s is free: no handler holds it. (Read locks
\* are taken and released within one step.)
Unlocked(s) == \A c \in DOMAIN handlers : c = s => handlers[c].pc = "idle"

\* The handler of the context of address space s takes the write lock of s
\* and runs up to the read lock of the foreign address space, or, when the
\* page has no External grant to consult, to its end.
FaultWriteLock(s, faulting_page, access) ==
    /\ ~panicked /\ nops < MaxOps
    /\ s \in DOMAIN addr_spaces
    /\ Unlocked(s)
    /\ LET foreign == fault_foreign(St, s, faulting_page, access)
           r == try_correcting_page_tables(St, s, faulting_page, access)
       IN  IF IsSome(foreign)
           THEN /\ handlers' = [handlers EXCEPT ![s] = [pc |-> "read", page |-> faulting_page,
                                                        access |-> access, foreign |-> Unwrap(foreign)]]
                /\ UNCHANGED << addr_spaces, page_info, allocated, panicked >>
           ELSE /\ addr_spaces' = r.st.spaces
                /\ page_info' = r.st.page_info
                /\ allocated' = r.st.allocated
                /\ panicked' = Halts(r.result)
                /\ UNCHANGED handlers
    /\ nops' = nops + 1
    /\ UNCHANGED << last, pre, kfx >>

\* The handler takes the read lock of the foreign address space, which waits
\* for as long as a writer holds it, finishes, and releases both locks.
FaultReadLock(s) ==
    /\ ~panicked
    /\ handlers[s].pc = "read"
    /\ Unlocked(handlers[s].foreign)
    /\ LET r == try_correcting_page_tables(St, s, handlers[s].page, handlers[s].access)
       IN  /\ addr_spaces' = r.st.spaces
           /\ page_info' = r.st.page_info
           /\ allocated' = r.st.allocated
           /\ panicked' = Halts(r.result)
    /\ handlers' = [handlers EXCEPT ![s] = Idle]
    /\ UNCHANGED << last, pre, nops, kfx >>

\* ---------------------------------------- actions on the floating-point state
\* last.ret holds the stored state the call found and the registers the caller
\* gave (set_fx_regs) or got (get_fx_regs).
SetFxRegs(new) ==
    /\ kfx' = set_fx_regs(kfx, new)
    /\ last' = Op("set_fx_regs", 1, None, PageSpan(0, 0), {}, NoBuilder, "none", "Ok",
                  Some([old |-> kfx, regs |-> new]))
    /\ UNCHANGED << addr_spaces, page_info, allocated, pre, panicked, nops, handlers >>

GetFxRegs ==
    /\ last' = Op("get_fx_regs", 1, None, PageSpan(0, 0), {}, NoBuilder, "none", "Ok",
                  Some([old |-> kfx, regs |-> get_fx_regs(kfx)]))
    /\ UNCHANGED << addr_spaces, page_info, allocated, pre, panicked, nops, handlers, kfx >>

\* ------------------------------------------------------------------ inputs
Pages == 0 .. (UserPages - 1)
\* The spans PageSpan::validate_nonempty accepts.
Spans == {sp \in [base : Pages, count : 1..UserPages] : sp.base + sp.count <= UserPages}
Prot == SUBSET {"PROT_WRITE", "PROT_EXEC"}
Fixed == {{}, {"MAP_FIXED"}, {"MAP_FIXED_NOREPLACE"}, {"MAP_FIXED", "MAP_FIXED_NOREPLACE"}}
Hints == {None} \cup {Some(p) : p \in Pages}
AccessModes == {"Read", "Write", "InstrFetch"}
AlignedMins == {p * PAGE_SIZE : p \in 0..UserPages}
\* min is a byte offset (usize): page boundaries, and offsets one byte above or
\* below one.
Mins == AlignedMins \cup {p * PAGE_SIZE + 1 : p \in Pages} \cup {p * PAGE_SIZE - 1 : p \in 1..UserPages}

\* --------------------------------------------------------- specification UG
\* One UserGrants driven directly through insert, remove, find_free and
\* find_free_at.
NextUG ==
    \/ \E sp \in Spans : UGInsert(zeroed(sp, PageFlags(TRUE, FALSE)))
    \/ \E b \in Pages : UGRemove(b)
    \/ \E min \in Mins, n \in 1..UserPages : UGFindFree(min, n)
    \/ \E h \in Hints, n \in 1..UserPages, f \in Fixed :
          /\ (IsSome(h) => Unwrap(h) + n <= UserPages)
          /\ UGFindFreeAt(h, n, f)

SpecUG == Init /\ [][NextUG]_vars

\* ----------------------------------------------------------- specification
\* The builders an mmap of page_count pages in address space s can be given:
\* the Grant constructors, a file mapping, and borrow_grant of a grant of
\* another address space that has page_count pages.
Builders(s, page_count) ==
    {Builder("zeroed", 0, 0, 0), Builder("physmap", PhysFrames, 0, 0), Builder("fmap", 0, 0, 0)}
    \cup {Builder("borrow_grant", 0, tb[1], tb[2]) :
            tb \in {x \in (DOMAIN addr_spaces) \X Pages :
                      /\ x[1] # s
                      /\ x[2] \in DOMAIN addr_spaces[x[1]].grants.inner
                      /\ addr_spaces[x[1]].grants.inner[x[2]].page_count = page_count}}

SpaceIds == 1..NSpaces
Fixed3 == {{}, {"MAP_FIXED"}, {"MAP_FIXED_NOREPLACE"}}

\* Address spaces driven through mmap (hinted or not, fixed or not), munmap,
\* mprotect, try_clone and page faults.
Next ==
    \/ NewAddrSpace
    \/ \E s \in SpaceIds, h \in Hints, n \in 1..(UserPages - 1), f \in Fixed3 :
          /\ s \in DOMAIN addr_spaces
          /\ (IsSome(h) => Unwrap(h) + n <= UserPages)
          /\ \E b \in {Builder("zeroed", 0, 0, 0), Builder("enomem", 0, 0, 0)} :
                Mmap(s, h, n, {"PROT_WRITE"} \cup f, b)
    \/ \E s \in SpaceIds, sp \in Spans : Mprotect(s, sp, {})
    \/ \E s \in SpaceIds, sp \in Spans : Munmap(s, sp)
    \/ \E s \in SpaceIds : TryClone(s)
    \/ \E s \in SpaceIds, page \in Pages : Fault(s, page, "Write")

Spec == Init /\ [][Next]_vars

\* Address spaces holding grants of every provider and protection, driven
\* through mprotect.
NextProt ==
    \/ NewAddrSpace
    \/ \E s \in SpaceIds, n \in 1..2, p \in {{}, {"PROT_WRITE"}} :
          /\ s \in DOMAIN addr_spaces
          /\ \E b \in Builders(s, n) : Mmap(s, None, n, p, b)
    \/ \E s \in SpaceIds, sp \in Spans, p \in Prot : Mprotect(s, sp, p)
    \/ \E s \in SpaceIds, page \in Pages, a \in {"Read", "Write"} : Fault(s, page, a)

SpecProt == Init /\ [][NextProt]_vars

\* ------------------------------------------------------- specification Cow
\* One address space that has mapped count writable zeroed pages, alone or
\* with one page touched and the address space cloned; then driven through
\* page faults, try_clone, mprotect and munmap.
CowStart(count, flags) ==
    mmap(State(MapInsert(EmptyMap, 1, AddrSpaceNew), PageInfoNew, 0),
         1, None, count, flags, Builder("zeroed", 0, 0, 0)).st
ForkStart(count, flags) ==
    try_clone(try_correcting_page_tables(CowStart(count, flags), 1, 1, "Write").st, 1).st
CowStarts ==
    {CowStart(count, flags) : count \in 1..2, flags \in {{"PROT_WRITE"}, {"PROT_WRITE", "PROT_EXEC"}}}
    \cup {ForkStart(count, flags) : count \in 1..2, flags \in {{"PROT_WRITE"}, {"PROT_WRITE", "PROT_EXEC"}}}

InitCow ==
    \E start \in CowStarts :
        /\ addr_spaces = start.spaces
        /\ page_info = start.page_info
        /\ allocated = start.allocated
        /\ last = Op("new", 1, None, PageSpan(0, 0), {}, NoBuilder, "none", "Ok", None)
        /\ pre = start
        /\ panicked = FALSE
        /\ nops = 0
        /\ handlers = NoHandlers
        /\ kfx = KfxNew

NextCow ==
    \/ \E s \in SpaceIds, page \in Pages, a \in AccessModes : Fault(s, page, a)
    \/ \E s \in SpaceIds : TryClone(s)
    \/ \E s \in SpaceIds, sp \in Spans : Munmap(s, sp)
    \/ \E s \in SpaceIds, sp \in Spans, p \in {{}, {"PROT_WRITE"}} : Mprotect(s, sp, p)
    \/ \E s \in SpaceIds : Mmap(s, None, 1, {"PROT_WRITE"}, Builder("zeroed", 0, 0, 0))

SpecCow == InitCow /\ [][NextCow]_vars

\* ----------------------------------------------------- specification Clone
\* Two address spaces exist, and the second one has mapped one grant of zeroed
\* pages, at page 1 or at a hinted page.
CloneStart(hint, count, flags) ==
    mmap(new_addrspace(State(MapInsert(EmptyMap, 1, AddrSpaceNew), PageInfoNew, 0)).st,
         2, hint, count, flags, Builder("zeroed", 0, 0, 0)).st

InitClone ==
    \E hint \in {None, Some(2)}, count \in 1..2, flags \in {{}, {"PROT_WRITE"}} :
        /\ addr_spaces = CloneStart(hint, count, flags).spaces
        /\ page_info = PageInfoNew
        /\ allocated = 0
        /\ last = Op("new", 1, None, PageSpan(0, 0), {}, NoBuilder, "none", "Ok", None)
        /\ pre = CloneStart(hint, count, flags)
        /\ panicked = FALSE
        /\ nops = 0
        /\ handlers = NoHandlers
        /\ kfx = KfxNew

\* The address spaces map grants of every provider, touch pages and are cloned.
NextClone ==
    \/ \E s \in SpaceIds, n \in 1..2, p \in {{}, {"PROT_WRITE"}} :
          /\ s \in DOMAIN addr_spaces
          /\ \E b \in Builders(s, n) : Mmap(s, None, n, p, b)
    \/ \E s \in SpaceIds : TryClone(s)
    \/ \E s \in SpaceIds, page \in Pages : Fault(s, page, "Write")

SpecClone == InitClone /\ [][NextClone]_vars

\* ----------------------------------------------------- specification Fault
\* Two address spaces exist, and the second one has mapped one zeroed page
\* with any protection.
InitFault ==
    \E count \in {1}, flags \in Prot :
        /\ addr_spaces = CloneStart(None, count, flags).spaces
        /\ page_info = PageInfoNew
        /\ allocated = 0
        /\ last = Op("new", 1, None, PageSpan(0, 0), {}, NoBuilder, "none", "Ok", None)
        /\ pre = CloneStart(None, count, flags)
        /\ panicked = FALSE
        /\ nops = 0
        /\ handlers = NoHandlers
        /\ kfx = KfxNew

\* Pages are touched in every access mode, by contexts with and without an
\* address space; grants of every provider and protection are mapped; address
\* spaces are cloned.
NextFault ==
    \/ \E s \in SpaceIds \cup {NoAddrSpace}, page \in Pages, a \in AccessModes : Fault(s, page, a)
    \/ \E s \in SpaceIds, p \in Prot :
          /\ s \in DOMAIN addr_spaces
          /\ \E b \in Builders(s, 1) : Mmap(s, None, 1, p, b)
    \/ \E s \in SpaceIds : TryClone(s)

SpecFault == InitFault /\ [][NextFault]_vars

\* ---------------------------------------------------- specification Borrow
\* Two address spaces exist, and the second one has mapped one or two grants
\* of zeroed pages or of physical frames: the whole user range of physical
\* frames from page 0, or one or two grants placed from mmap_min up.
TwoSpaces == new_addrspace(State(MapInsert(EmptyMap, 1, AddrSpaceNew), PageInfoNew, 0)).st
SourceBuilders == {Builder("zeroed", 0, 0, 0), Builder("physmap", PhysFrames, 0, 0)}
BorrowStarts ==
    {mmap(TwoSpaces, 2, Some(0), UserPages, {"PROT_WRITE"}, Builder("physmap", PhysFrames, 0, 0)).st}
    \cup {mmap(TwoSpaces, 2, None, n, {"PROT_WRITE"}, b).st : n \in 2..3, b \in SourceBuilders}
    \cup {mmap(mmap(TwoSpaces, 2, None, 1, {"PROT_WRITE"}, b1).st,
               2, None, 1, {"PROT_WRITE"}, b2).st : b1 \in SourceBuilders, b2 \in SourceBuilders}

InitBorrow ==
    \E start \in BorrowStarts :
        /\ addr_spaces = start.spaces
        /\ page_info = start.page_info
        /\ allocated = start.allocated
        /\ last = Op("new", 1, None, PageSpan(0, 0), {}, NoBuilder, "none", "Ok", None)
        /\ pre = start
        /\ panicked = FALSE
        /\ nops = 0
        /\ handlers = NoHandlers
        /\ kfx = KfxNew

\* Address spaces borrow ranges of each other through Grant::borrow, at an
\* automatic base or, for the whole user range, at page 0, and single grants
\* through Grant::borrow_grant, and touch pages.
NextBorrow ==
    \/ \E s \in SpaceIds, src \in SpaceIds, sp \in Spans :
          \E h \in {None} \cup (IF sp.count = UserPages THEN {Some(0)} ELSE {}) :
              MmapMultiple(s, h, sp.count, {"PROT_WRITE"}, Builder("borrow", 0, src, sp.base))
    \/ \E s \in SpaceIds, n \in 1..3 :
          /\ s \in DOMAIN addr_spaces
          /\ \E b \in {b2 \in Builders(s, n) : b2.kind = "borrow_grant"} :
                Mmap(s, None, n, {"PROT_WRITE"}, b)
    \/ \E s \in SpaceIds, page \in Pages, a \in {"Read", "Write"} : Fault(s, page, a)

SpecBorrow == InitBorrow /\ [][NextBorrow]_vars

\* ------------------------------------------------------ specification Lock
\* Two address spaces exist and each has mapped one grant of one writable
\* zeroed page at mmap_min; the first one may have borrowed the page of the
\* second one.
EachOnePage ==
    mmap(mmap(TwoSpaces, 1, None, 1, {"PROT_WRITE"}, Builder("zeroed", 0, 0, 0)).st,
         2, None, 1, {"PROT_WRITE"}, Builder("zeroed", 0, 0, 0)).st
LockStarts ==
    {EachOnePage,
     mmap_multiple(EachOnePage, 1, None, 1, {"PROT_WRITE"},
                   Builder("borrow", 0, 2, MMAP_MIN_DEFAULT \div PAGE_SIZE)).st}

InitLock ==
    \E start \in LockStarts :
        /\ addr_spaces = start.spaces
        /\ page_info = start.page_info
        /\ allocated = start.allocated
        /\ last = Op("new", 1, None, PageSpan(0, 0), {}, NoBuilder, "none", "Ok", None)
        /\ pre = start
        /\ panicked = FALSE
        /\ nops = 0
        /\ handlers = NoHandlers
        /\ kfx = KfxNew

\* The contexts of the address spaces run concurrently: each borrows ranges
\* and grants of another address space (holding its own write lock and the
\* other's read lock for the call), clones its address space, and faults; a
\* fault handler takes its two locks in two steps.
NextLock ==
    \/ \E s \in SpaceIds, src \in SpaceIds, src_base \in Pages :
          /\ Unlocked(s) /\ Unlocked(src)
          /\ MmapMultiple(s, None, 1, {"PROT_WRITE"}, Builder("borrow", 0, src, src_base))
    \/ \E s \in SpaceIds, n \in 1..1 :
          /\ s \in DOMAIN addr_spaces
          /\ \E b \in {b2 \in Builders(s, n) : b2.kind = "borrow_grant"} :
                Unlocked(s) /\ Unlocked(b.src) /\ Mmap(s, None, n, {"PROT_WRITE"}, b)
    \/ \E s \in SpaceIds : Unlocked(s) /\ TryClone(s)
    \/ \E s \in SpaceIds, page \in Pages, a \in {"Read", "Write"} : FaultWriteLock(s, page, a)
    \/ \E s \in SpaceIds : FaultReadLock(s)

SpecLock == InitLock /\ [][NextLock]_vars

\* -------------------------------------------------------- specification Fx
\* A context's floating-point registers are read and written with any value a
\* caller can supply.
FloatRegistersValues ==
    LET u128 == {U128(reserved, low) : reserved \in 0..MaxField, low \in 0..MaxField}
    IN  {FloatRegisters(st_space, reserved) :
            st_space \in [1..StCount -> u128], reserved \in 0..MaxField}

NextFx ==
    \/ \E new \in FloatRegistersValues : SetFxRegs(new)
    \/ GetFxRegs

SpecFx == Init /\ [][NextFx]_vars

\* ================================================================== claims
\* What a UserGrants covers, computed from its two maps alone.
GrantBytes(ug) ==
    {[start |-> start_address(b), end |-> start_address(b + ug.inner[b].page_count)] :
        b \in DOMAIN ug.inner}
HoleBytes(ug) == {[start |-> o, end |-> o + ug.holes[o]] : o \in DOMAIN ug.holes}
Disjoint(i, j) == i.end <= j.start \/ j.end <= i.start
GrantedPages(ug) == {p \in Pages : \E b \in DOMAIN ug.inner : b <= p /\ p < b + ug.inner[b].page_count}
HolePages(ug) ==
    {p \in Pages : \E o \in DOMAIN ug.holes :
        o <= start_address(p) /\ start_address(p + 1) <= o + ug.holes[o]}

Duality(ug) ==
    /\ \A i \in GrantBytes(ug) \cup HoleBytes(ug) : 0 <= i.start /\ i.end <= USER_END_OFFSET
    /\ \A i, j \in GrantBytes(ug) : i # j => Disjoint(i, j)
    /\ \A i, j \in HoleBytes(ug) : i # j => Disjoint(i, j)
    /\ \A i \in GrantBytes(ug), j \in HoleBytes(ug) : Disjoint(i, j)
    /\ \A p \in Pages :
          Cardinality({i \in GrantBytes(ug) \cup HoleBytes(ug) :
                          i.start <= start_address(p) /\ start_address(p + 1) <= i.end}) = 1
    /\ Cardinality(GrantBytes(ug)) + Cardinality(HoleBytes(ug))
          = Cardinality(GrantBytes(ug) \cup HoleBytes(ug))

\* C1: in every reachable state, in every address space, the grant spans and
\* the holes are pairwise disjoint and together cover [0, USER_END_OFFSET)
\* exactly.
C1_Duality == \A s \in DOMAIN addr_spaces : Duality(addr_spaces[s].grants)

\* A munmap has cut a grant in two: the address space holds at least two
\* grants and two holes.
C1_Witness ==
    /\ last.op = "munmap" /\ last.result = "Ok"
    /\ Cardinality(DOMAIN addr_spaces[last.s].grants.inner) >= 2
    /\ Cardinality(DOMAIN addr_spaces[last.s].grants.holes) >= 2
    /\ Cardinality(DOMAIN pre.spaces[last.s].grants.inner) = 1

\* What is asked of the span the observed find_free(min, n) returned.
FindFreeSafe ==
    LET span == Unwrap(last.ret)
        min == Unwrap(last.page)
    IN  /\ span.count = last.span.count
        /\ SpanPages(span) \cap GrantedPages(UG) = {}
        /\ \A b \in DOMAIN UG.inner :
              b + UG.inner[b].page_count <= span.base \/ span.base + span.count <= b
        /\ start_address(span.base) >= min

\* C2: a span find_free(min, n) returns has exactly n pages, shares no page
\* with a grant and does not start below min, for every min.
C2_FindFreeSafe ==
    (last.op = "find_free" /\ last.result = "Some") => FindFreeSafe

\* For a min on a page boundary the span find_free(min, n) returns has exactly
\* n pages, shares no page with a grant and does not start below min.
FindFreeSafeAlignedMin ==
    (last.op = "find_free" /\ last.result = "Some" /\ Unwrap(last.page) \in AlignedMins)
        => FindFreeSafe

\* For every min the span find_free(min, n) returns has exactly n pages, shares
\* no page with a grant and does not end at or below min.
FindFreeSafeAnyMin ==
    (last.op = "find_free" /\ last.result = "Some") =>
        /\ Unwrap(last.ret).count = last.span.count
        /\ SpanPages(Unwrap(last.ret)) \cap GrantedPages(UG) = {}
        /\ start_address(Unwrap(last.ret).base) + PAGE_SIZE > Unwrap(last.page)

\* C3: after insert(g) on a UserGrants U, remove(g.base) yields U again: the
\* same grant map and the same hole map.
C3_InsertRemove ==
    (last.op = "insert" /\ last.result = "Ok") =>
        /\ remove(UG, last.span.base).inner = pre.spaces[1].grants.inner
        /\ remove(UG, last.span.base).holes = pre.spaces[1].grants.holes

\* A grant was inserted into the middle of a hole, next to no other grant.
C3_Witness ==
    /\ last.op = "insert" /\ last.result = "Ok"
    /\ \E o \in DOMAIN pre.spaces[1].grants.holes :
          /\ o < start_address(last.span.base)
          /\ start_address(SpanEnd(last.span)) < o + pre.spaces[1].grants.holes[o]
    /\ pre.spaces[1].grants.inner # EmptyMap

\* Whether some grant shares a page with the span.
SomeGrantIntersects(ug, span) == SpanPages(span) \cap GrantedPages(ug) # {}
FindFreeResult(ug, min, n) ==
    IF IsSome(find_free(ug, min, n))
    THEN [result |-> "Ok", ret |-> find_free(ug, min, n)]
    ELSE [result |-> "ENOMEM", ret |-> None]

\* C4: find_free_at returns find_free's answer (or ENOMEM) without a base;
\* with a base whose span meets a grant EEXIST under MAP_FIXED_NOREPLACE, else
\* EOPNOTSUPP under MAP_FIXED, else find_free's answer; with a base whose span
\* meets no grant exactly that span; and it changes neither grants nor holes.
C4_FindFreeAt ==
    (last.op = "find_free_at") =>
        LET n == last.span.count
            got == [result |-> last.result, ret |-> last.ret]
            free == FindFreeResult(UG, addr_spaces[1].mmap_min, n)
        IN  /\ IF ~IsSome(last.page) THEN got = free
               ELSE IF SomeGrantIntersects(UG, PageSpan(Unwrap(last.page), n))
               THEN IF "MAP_FIXED_NOREPLACE" \in last.flags
                    THEN got = [result |-> "EEXIST", ret |-> None]
                    ELSE IF "MAP_FIXED" \in last.flags
                    THEN got = [result |-> "EOPNOTSUPP", ret |-> None]
                    ELSE got = free
               ELSE got = [result |-> "Ok", ret |-> Some(PageSpan(Unwrap(last.page), n))]
            /\ UG = pre.spaces[1].grants

\* find_free_at refused, with EEXIST, a base that lies inside a grant which
\* begins before it.
C4_Witness ==
    /\ last.op = "find_free_at" /\ last.result = "EEXIST"
    /\ \E b \in DOMAIN UG.inner : b < Unwrap(last.page) /\ Unwrap(last.page) < b + UG.inner[b].page_count

\* An mmap whose placement the address space chose: no hint, or a hint whose
\* span met a grant while neither MAP_FIXED nor MAP_FIXED_NOREPLACE was given.
AutoPlaced ==
    /\ last.op = "mmap"
    /\ \/ ~IsSome(last.page)
       \/ /\ SomeGrantIntersects(pre.spaces[last.s].grants,
                                 PageSpan(Unwrap(last.page), last.span.count))
          /\ last.flags \cap {"MAP_FIXED", "MAP_FIXED_NOREPLACE"} = {}

\* C5: a successful auto-placed mmap returns a base not below mmap_min, its
\* span was free before the call, the builder's grant is recorded at that base
\* and the holes lose exactly that span; on an empty space with count 2 the
\* base is page 1 and the holes are {0 -> 4096, 3*4096 -> rest}.
C5_AutoPlacedMmap ==
    (AutoPlaced /\ last.result = "Ok") =>
        LET ug0 == pre.spaces[last.s].grants
            ug1 == addr_spaces[last.s].grants
            span == last.span
        IN  /\ start_address(span.base) >= pre.spaces[last.s].mmap_min
            /\ span.base # 0
            /\ SpanPages(span) \cap GrantedPages(ug0) = {}
            /\ SpanPages(span) \subseteq HolePages(ug0)
            /\ span.base \in DOMAIN ug1.inner
            /\ ug1.inner[span.base].page_count = span.count
            /\ ug1.inner[span.base].flags =
                  PageFlags("PROT_WRITE" \in last.flags, "PROT_EXEC" \in last.flags)
            /\ (last.builder.kind = "zeroed") => ug1.inner[span.base].provider = Allocated
            /\ \A b \in DOMAIN ug1.inner : b # span.base =>
                  b \in DOMAIN ug0.inner /\ ug1.inner[b] = ug0.inner[b]
            /\ DOMAIN ug1.inner = DOMAIN ug0.inner \cup {span.base}
            /\ HolePages(ug1) = HolePages(ug0) \ SpanPages(span)
            /\ Duality(ug1)
            /\ (ug0 = UserGrantsNew /\ span.count = 2 /\ ~IsSome(last.page)) =>
                  /\ start_address(span.base) = PAGE_SIZE
                  /\ ug1.holes = MapInsert(MapInsert(EmptyMap, 0, 4096),
                                             3 * 4096, USER_END_OFFSET - 3 * 4096)

\* An mmap with a hint whose span was taken, and no fixed flag, was placed
\* elsewhere in a space that already held a grant.
C5_Witness ==
    /\ AutoPlaced /\ last.result = "Ok"
    /\ IsSome(last.page)
    /\ last.span.base # Unwrap(last.page)
    /\ pre.spaces[last.s].grants.inner # EmptyMap

\* C9: an mmap that returns an error leaves the address space's grant map and
\* hole map exactly as they were.
C9_MmapErrorNoChange ==
    (last.op = "mmap" /\ last.result \in {"ENOMEM", "EEXIST", "EOPNOTSUPP"}) =>
        /\ addr_spaces[last.s].grants.inner = pre.spaces[last.s].grants.inner
        /\ addr_spaces[last.s].grants.holes = pre.spaces[last.s].grants.holes

\* The builder of an mmap failed after a free span had been selected in a space
\* that holds a grant.
C9_Witness ==
    /\ last.op = "mmap" /\ last.result = "ENOMEM"
    /\ last.builder.kind = "enomem"
    /\ pre.spaces[last.s].grants.inner # EmptyMap
    /\ IsSome(find_free(pre.spaces[last.s].grants, pre.spaces[last.s].mmap_min, last.span.count))

\* The grant that holds a granted page, its flags, and what provides the page:
\* a frame of the allocator, the physical frame at the page's offset from the
\* grant's base, or the page of another address space at that offset.
GrantAt(ug, p) == CHOOSE b \in DOMAIN ug.inner : b <= p /\ p < b + ug.inner[b].page_count
FlagsAt(ug, p) == ug.inner[GrantAt(ug, p)].flags
ProviderAt(ug, p) ==
    LET b == GrantAt(ug, p)
        provider == ug.inner[b].provider
    IN  CASE provider.kind = "PhysBorrowed" -> << "PhysBorrowed", provider.base + (p - b) >>
          [] provider.kind = "External" ->
                << "External", provider.address_space, provider.src_base + (p - b) >>
          [] OTHER -> << provider.kind >>
PiecesOf(ug, span) == {b \in DOMAIN ug.inner : b \in SpanPages(span)}

\* C6: a successful mprotect(span, flags) gives every granted page inside span
\* the requested write/execute bits, leaves every granted page outside span its
\* flags and provider, cuts a grant into at most three pieces, and keeps the
\* set of granted pages and the hole map.
C6_MprotectFrame ==
    (last.op = "mprotect" /\ last.result = "Ok") =>
        LET ug0 == pre.spaces[last.s].grants
            ug1 == addr_spaces[last.s].grants
        IN  /\ GrantedPages(ug1) = GrantedPages(ug0)
            /\ ug1.holes = ug0.holes
            /\ \A p \in GrantedPages(ug0) \cap SpanPages(last.span) :
                  FlagsAt(ug1, p) = PageFlags("PROT_WRITE" \in last.flags, "PROT_EXEC" \in last.flags)
            /\ \A p \in GrantedPages(ug0) \ SpanPages(last.span) :
                  /\ FlagsAt(ug1, p) = FlagsAt(ug0, p)
                  /\ ProviderAt(ug1, p) = ProviderAt(ug0, p)
            /\ \A b \in DOMAIN ug0.inner :
                  Cardinality(PiecesOf(ug1, PageSpan(b, ug0.inner[b].page_count))) <= 3

C8_MprotectErrorNoChange ==
    (last.op = "mprotect" /\ last.result = "EACCES") =>
        /\ \A p \in GrantedPages(pre.spaces[last.s].grants) :
              FlagsAt(addr_spaces[last.s].grants, p) = FlagsAt(pre.spaces[last.s].grants, p)
        /\ DOMAIN addr_spaces[last.s].table = DOMAIN pre.spaces[last.s].table
        /\ \A p \in DOMAIN pre.spaces[last.s].table :
              addr_spaces[last.s].table[p].flags = pre.spaces[last.s].table[p].flags

\* The span of the observed mprotect lies inside one grant of the state before.
WithinOneGrant ==
    /\ last.op = "mprotect"
    /\ \E b \in DOMAIN pre.spaces[last.s].grants.inner :
          SpanPages(last.span) \subseteq SpanPages(PageSpan(b, pre.spaces[last.s].grants.inner[b].page_count))
\* mprotect(X, F) on the state the observed mprotect(X, G) produced, F being the
\* flags the grant had.
Restored ==
    mprotect(addr_spaces[last.s], last.span,
             map_flags(FlagsAt(pre.spaces[last.s].grants, last.span.base)))
RoundTrip ==
    /\ Restored.result = "Ok"
    /\ \A p \in SpanPages(last.span) :
          FlagsAt(Restored.as.grants, p) = FlagsAt(pre.spaces[last.s].grants, p)
    /\ GrantedPages(Restored.as.grants) = GrantedPages(pre.spaces[last.s].grants)

\* C10 as stated: for a grant of any provider that covers X, a successful
\* mprotect(X, G) followed by mprotect(X, F) succeeds and restores the flags.
C10_RoundTripAnyProvider ==
    (WithinOneGrant /\ last.result = "Ok") => RoundTrip

\* The provider of the grant that covers the span of the observed mprotect.
CoveringProvider ==
    pre.spaces[last.s].grants.inner[GrantAt(pre.spaces[last.s].grants, last.span.base)].provider

\* C10: for an Allocated grant that covers X with flags F and every G,
\* mprotect(X, G) succeeds, and mprotect(X, F) after it succeeds, restores the
\* flags of every page of X to F and keeps the set of granted pages; for a
\* grant of another provider, after a successful mprotect(X, G) that took a
\* permission of F away, mprotect(X, F) returns EACCES.
C10_RoundTripAllocated ==
    WithinOneGrant =>
        /\ (CoveringProvider.kind = "Allocated") => (last.result = "Ok" /\ RoundTrip)
        /\ (/\ CoveringProvider.kind # "Allocated"
            /\ last.result = "Ok"
            /\ page_flags(last.flags) # FlagsAt(pre.spaces[last.s].grants, last.span.base))
              => Restored.result = "EACCES"

\* An mprotect added execute permission to the middle of an Allocated grant.
C10_Witness ==
    /\ WithinOneGrant /\ last.result = "Ok"
    /\ CoveringProvider.kind = "Allocated"
    /\ "PROT_EXEC" \in last.flags
    /\ ~FlagsAt(pre.spaces[last.s].grants, last.span.base).execute
    /\ last.span.base \notin DOMAIN pre.spaces[last.s].grants.inner

\* C11: after munmap(span) no grant intersects span, no page of span that was
\* granted has a PTE, every granted page outside span is still granted with the
\* same flags, and the freed pages are holes; unmapping the middle of the only
\* grant leaves two grants around a hole of exactly the span, which
\* find_free(PAGE_SIZE, count) returns.
C11_Munmap ==
    (last.op = "munmap" /\ last.result = "Ok") =>
        LET ug0 == pre.spaces[last.s].grants
            ug1 == addr_spaces[last.s].grants
            freed == GrantedPages(ug0) \cap SpanPages(last.span)
        IN  /\ GrantedPages(ug1) \cap SpanPages(last.span) = {}
            /\ \A b \in DOMAIN ug1.inner : ~intersects(PageSpan(b, ug1.inner[b].page_count), last.span)
            /\ freed \cap DOMAIN addr_spaces[last.s].table = {}
            /\ GrantedPages(ug1) = GrantedPages(ug0) \ SpanPages(last.span)
            /\ \A p \in GrantedPages(ug1) : FlagsAt(ug1, p) = FlagsAt(ug0, p)
            /\ HolePages(ug1) = HolePages(ug0) \cup freed
            /\ Duality(ug1)
            /\ (/\ DOMAIN ug0.inner = {1}
                /\ 1 < last.span.base
                /\ SpanEnd(last.span) < 1 + ug0.inner[1].page_count) =>
                  /\ DOMAIN ug1.inner = {1, SpanEnd(last.span)}
                  /\ start_address(last.span.base) \in DOMAIN ug1.holes
                  /\ ug1.holes[start_address(last.span.base)] = last.span.count * PAGE_SIZE
                  /\ find_free(ug1, PAGE_SIZE, last.span.count) = Some(last.span)

\* A munmap took the middle page, which had a PTE, out of the only grant.
C11_Witness ==
    /\ last.op = "munmap" /\ last.result = "Ok"
    /\ DOMAIN pre.spaces[last.s].grants.inner = {1}
    /\ 1 < last.span.base
    /\ SpanEnd(last.span) < 1 + pre.spaces[last.s].grants.inner[1].page_count
    /\ last.span.base \in DOMAIN pre.spaces[last.s].table

\* The state after a page fault on each page of a sequence, one after the
\* other, as long as the faults are corrected.
RECURSIVE AfterFaults(_, _, _)
AfterFaults(st, s, pages) ==
    IF pages = << >> THEN st
    ELSE LET r == try_correcting_page_tables(st, s, Head(pages), "Write")
         IN  IF r.result = "Ok" THEN AfterFaults(r.st, s, Tail(pages)) ELSE st
FaultSequences(span) ==
    {<< >>} \cup {<< p >> : p \in SpanPages(span)}
            \cup {<< p, q >> : p \in SpanPages(span), q \in SpanPages(span)}

\* C12: mmap of a span, then page faults on pages of the span, then munmap of
\* the span give back the state before the mmap: the same holes, the same PTE
\* coverage and the same refcount and cow_refcount for every frame.
C12_MmapMunmap ==
    (last.op = "mmap" /\ last.result = "Ok") =>
        \A pages \in FaultSequences(last.span) :
            LET faulted == AfterFaults(St, last.s, pages)
                unmapped == munmap(faulted.spaces[last.s], last.span)
            IN  /\ unmapped.result = "Ok"
                /\ unmapped.as.grants.holes = pre.spaces[last.s].grants.holes
                /\ unmapped.as.grants.inner = pre.spaces[last.s].grants.inner
                /\ DOMAIN unmapped.as.table = DOMAIN pre.spaces[last.s].table
                /\ faulted.page_info = pre.page_info

\* The (address space, page) pairs whose PTE maps a frame, in a state.
MappersOf(st, frame) ==
    {sp \in (DOMAIN st.spaces) \X Pages :
        sp[2] \in DOMAIN st.spaces[sp[1]].table /\ st.spaces[sp[1]].table[sp[2]].frame = frame}
Mappers(frame) == MappersOf(St, frame)
ReadOnlyMappers(frame) ==
    {sp \in Mappers(frame) : ~addr_spaces[sp[1]].table[sp[2]].flags.write}
\* The frames that some page of an Allocated grant is mapped to.
AllocatedGrantFrames ==
    {f \in AllocFrames : \E sp \in Mappers(f) :
        /\ sp[2] \in GrantedPages(addr_spaces[sp[1]].grants)
        /\ ProviderAt(addr_spaces[sp[1]].grants, sp[2]) = << "Allocated" >>}

\* C13: every frame that backs an Allocated grant has a refcount equal to the
\* number of (address space, page) pairs whose PTE maps it, and, when it is
\* shared by several pairs, a cow_refcount equal to the number of those pairs
\* whose PTE is read-only.
C13_RefcountInvariant ==
    \A f \in AllocatedGrantFrames :
        /\ page_info[f].refcount = Cardinality(Mappers(f))
        /\ Cardinality(Mappers(f)) > 1 =>
              page_info[f].cow_refcount = Cardinality(ReadOnlyMappers(f))

\* The pages of the Allocated grants of an address space, and those of them
\* that have a page table entry.
AllocatedPages(as) ==
    UNION {SpanPages(PageSpan(b, as.grants.inner[b].page_count)) :
           b \in {b2 \in DOMAIN as.grants.inner : as.grants.inner[b2].provider.kind = "Allocated"}}
MappedAllocatedPages(as) == {p \in AllocatedPages(as) : p \in DOMAIN as.table}
PagesOnFrame(as, f) == {p \in MappedAllocatedPages(as) : as.table[p].frame = f}
ClonedOk == last.op = "try_clone" /\ last.result = "Ok"

\* C14: after a successful try_clone, every mapped page of an Allocated grant
\* of the parent is mapped read-only to its old frame in the parent and in the
\* child, both counts of that frame have grown by one for each such page
\* (a frame with refcount 1 and cow_refcount 1 now has 2 and 2), and an unmapped
\* page of an Allocated grant has no entry in the child and changes no count.
C14_TryCloneCow ==
    ClonedOk =>
        LET parent0 == pre.spaces[last.s]
            parent == addr_spaces[last.s]
            child == addr_spaces[Unwrap(last.ret)]
        IN  /\ \A p \in AllocatedPages(parent0) :
                  IF p \in DOMAIN parent0.table
                  THEN LET f == parent0.table[p].frame
                       IN  /\ p \in DOMAIN parent.table
                           /\ parent.table[p].frame = f
                           /\ ~parent.table[p].flags.write
                           /\ p \in DOMAIN child.table
                           /\ child.table[p].frame = f
                           /\ ~child.table[p].flags.write
                           /\ (pre.page_info[f] = [refcount |-> 1, cow_refcount |-> 1]
                                 => page_info[f] = [refcount |-> 2, cow_refcount |-> 2])
                  ELSE p \notin DOMAIN parent.table /\ p \notin DOMAIN child.table
            /\ DOMAIN child.table = MappedAllocatedPages(parent0)
            /\ \A f \in AllocFrames :
                  LET n == Cardinality(PagesOnFrame(parent0, f))
                  IN  /\ page_info[f].refcount = pre.page_info[f].refcount + n
                      /\ page_info[f].cow_refcount = pre.page_info[f].cow_refcount + n

\* A parent with a writable Allocated grant that has a mapped page on a frame of
\* refcount 1 and an unmapped page was cloned.
C14_Witness ==
    /\ ClonedOk
    /\ \E p \in MappedAllocatedPages(pre.spaces[last.s]) :
          /\ pre.spaces[last.s].table[p].flags.write
          /\ pre.page_info[pre.spaces[last.s].table[p].frame].refcount = 1
    /\ AllocatedPages(pre.spaces[last.s]) # MappedAllocatedPages(pre.spaces[last.s])

\* The observed operation is a Write fault on a mapped page of a writable
\* Allocated grant whose frame has a cow_refcount above 1, with a frame left
\* in the allocator.
FaultedGrant == contains(pre.spaces[last.s].grants, Unwrap(last.page))
FaultedPTE == translate(pre.spaces[last.s].table, Unwrap(last.page))
CowBreakCase ==
    /\ last.op = "fault" /\ last.access = "Write"
    /\ IsSome(FaultedGrant)
    /\ pre.spaces[last.s].grants.inner[Unwrap(FaultedGrant)].provider.kind = "Allocated"
    /\ pre.spaces[last.s].grants.inner[Unwrap(FaultedGrant)].flags.write
    /\ IsSome(FaultedPTE)
    /\ pre.page_info[Unwrap(FaultedPTE).frame].cow_refcount > 1
    /\ can_allocate(pre)

\* C15: a Write fault on a mapped page of an Allocated grant whose frame F has
\* cow_refcount > 1 succeeds with a CoW break: a new frame F' has refcount 1 and
\* cow_refcount 1, the faulting page maps F' writable, both counts of F are one
\* lower, and every other page table entry, of this and of every other address
\* space, is as it was (so after a fork and one write in the child the parent
\* still maps F, with refcount 1 and cow_refcount 1).
C15_CowBreak ==
    CowBreakCase =>
        LET page == Unwrap(last.page)
            F == Unwrap(FaultedPTE).frame
            F2 == pre.allocated + 1
        IN  /\ last.result = "Ok"
            /\ allocated = pre.allocated + 1
            /\ page_info[F2] = [refcount |-> 1, cow_refcount |-> 1]
            /\ addr_spaces[last.s].table[page].frame = F2
            /\ addr_spaces[last.s].table[page].flags.write
            /\ page_info[F].refcount = pre.page_info[F].refcount - 1
            /\ page_info[F].cow_refcount = pre.page_info[F].cow_refcount - 1
            /\ \A t \in DOMAIN addr_spaces :
                  /\ DOMAIN addr_spaces[t].table = DOMAIN pre.spaces[t].table
                  /\ \A p \in DOMAIN addr_spaces[t].table :
                        (t # last.s \/ p # page) => addr_spaces[t].table[p] = pre.spaces[t].table[p]
            /\ \A f \in AllocFrames \ {F, F2} : page_info[f] = pre.page_info[f]

\* A forked child wrote to a page whose frame it shared with its parent, the
\* frame having refcount 2 and cow_refcount 2; the parent still maps the frame.
C15_Witness ==
    /\ CowBreakCase
    /\ last.s # 1
    /\ pre.page_info[Unwrap(FaultedPTE).frame] = [refcount |-> 2, cow_refcount |-> 2]
    /\ page_info[Unwrap(FaultedPTE).frame] = [refcount |-> 1, cow_refcount |-> 1]
    /\ addr_spaces[1].table[Unwrap(last.page)].frame = Unwrap(FaultedPTE).frame
    /\ addr_spaces[last.s].table[Unwrap(last.page)].frame # Unwrap(FaultedPTE).frame

\* The state munmap of a span leaves in address space s.
AfterMunmap(st, s, span) == [st EXCEPT !.spaces[s] = munmap(@, span).as]
\* The frames the page table of an address space maps.
FramesOf(as) == {as.table[p].frame : p \in DOMAIN as.table}

\* C16: after try_clone and munmap of the whole user range of the clone, every
\* frame the source maps has the refcount and the cow_refcount it had before
\* the try_clone.
C16_CloneMunmapNoLeak ==
    ClonedOk =>
        LET unmapped == AfterMunmap(St, Unwrap(last.ret), PageSpan(0, UserPages))
        IN  \A f \in FramesOf(pre.spaces[last.s]) : unmapped.page_info[f] = pre.page_info[f]

ProviderKinds(as) == {as.grants.inner[b].provider.kind : b \in DOMAIN as.grants.inner}

\* C17: after a successful try_clone the child has exactly one grant for each
\* grant of the parent, at the same base, with the same page_count, flags and
\* provider kind (and, for PhysBorrowed, the same frame base); the holes of the
\* child are the exact complement of its grants; the grants and the holes of
\* the parent are what they were.
C17_CloneGrants ==
    ClonedOk =>
        LET parent0 == pre.spaces[last.s]
            parent == addr_spaces[last.s]
            child == addr_spaces[Unwrap(last.ret)]
        IN  /\ DOMAIN child.grants.inner = DOMAIN parent0.grants.inner
            /\ \A b \in DOMAIN parent0.grants.inner :
                  LET src == parent0.grants.inner[b]
                      dst == child.grants.inner[b]
                  IN  /\ dst.page_count = src.page_count
                      /\ dst.flags = src.flags
                      /\ dst.provider.kind = src.provider.kind
                      /\ dst.provider.kind \in {"PhysBorrowed", "Allocated", "External"}
                      /\ (src.provider.kind = "PhysBorrowed"
                            => dst.provider.base = src.provider.base)
            /\ Duality(child.grants)
            /\ HolePages(child.grants) = Pages \ GrantedPages(child.grants)
            /\ parent.grants = parent0.grants

\* A parent with an External grant and a PhysBorrowed grant was cloned.
C17_Witness ==
    /\ ClonedOk
    /\ "External" \in ProviderKinds(pre.spaces[last.s])
    /\ Cardinality(ProviderKinds(pre.spaces[last.s])) > 1
    /\ \E b \in DOMAIN pre.spaces[last.s].grants.inner :
          pre.spaces[last.s].grants.inner[b].provider.kind = "PhysBorrowed"

\* The page of the foreign address space that the fault handler reads for a
\* fault at page p of an External grant at grant_base.
SourcePage(info, grant_base, p) == info.provider.src_base + (p - grant_base)
ExternalBases(as) ==
    {b \in DOMAIN as.grants.inner : as.grants.inner[b].provider.kind = "External"}

\* C18: after try_clone, the child's grant at the base g of an External grant
\* of the parent is External with the same address space and the same src_base,
\* so that a fault at any page of the grant reads the same page of that address
\* space in the child as in the parent.
C18_CloneExternal ==
    ClonedOk =>
        \A g \in ExternalBases(pre.spaces[last.s]) :
            LET src == pre.spaces[last.s].grants.inner[g]
                dst == addr_spaces[Unwrap(last.ret)].grants.inner[g]
            IN  /\ dst.provider.kind = "External"
                /\ dst.provider.address_space = src.provider.address_space
                /\ dst.provider.src_base = src.provider.src_base
                /\ \A p \in SpanPages(PageSpan(g, src.page_count)) :
                      SourcePage(dst, g, p) = SourcePage(src, g, p)

\* The observed fault was taken with a current address space, inside a grant;
\* the flags of that grant.
FaultHasSpace == last.s \in DOMAIN pre.spaces
FaultInGrant == FaultHasSpace /\ Unwrap(last.page) \in GrantedPages(pre.spaces[last.s].grants)
FaultGrantFlags == FlagsAt(pre.spaces[last.s].grants, Unwrap(last.page))
\* The conditions under which the handler is to answer Segv.
SegvExpected ==
    \/ ~FaultHasSpace
    \/ ~FaultInGrant
    \/ last.access = "Write" /\ ~FaultGrantFlags.write
    \/ last.access = "InstrFetch" /\ ~FaultGrantFlags.execute

\* C19: a page fault is answered with Segv exactly when there is no current
\* address space, the page lies in no grant, the access is a Write and the
\* grant lacks write, or the access is an InstrFetch and the grant lacks
\* execute; a Read inside a grant is never answered with Segv; and a fault
\* answered with Segv changes no PTE, refcount, grant or hole.
C19_SegvIff ==
    last.op = "fault" =>
        /\ (last.result = "Segv") <=> SegvExpected
        /\ (last.access = "Read" /\ FaultInGrant) => last.result # "Segv"
        /\ last.result = "Segv" => St = pre

\* An InstrFetch inside a writable grant that lacks execute was answered with
\* Segv.
C19_Witness ==
    /\ last.op = "fault" /\ last.access = "InstrFetch" /\ last.result = "Segv"
    /\ FaultInGrant
    /\ FaultGrantFlags.write /\ ~FaultGrantFlags.execute

\* The observed fault is a Read or an InstrFetch the grant permits, on a page
\* of an Allocated grant that has no page table entry, with a frame left in
\* the allocator.
LazyReadCase ==
    /\ last.op = "fault" /\ last.access \in {"Read", "InstrFetch"}
    /\ FaultInGrant
    /\ ProviderAt(pre.spaces[last.s].grants, Unwrap(last.page)) = << "Allocated" >>
    /\ Unwrap(last.page) \notin DOMAIN pre.spaces[last.s].table
    /\ (last.access = "InstrFetch" => FaultGrantFlags.execute)
    /\ can_allocate(pre)

\* C20: a Read or InstrFetch fault on an unmapped page of an Allocated grant
\* allocates one fresh frame, with refcount 1 and cow_refcount 1, and leaves the
\* page mapped to it read-only, whatever the flags of the grant.
C20_LazyReadOnly ==
    LazyReadCase =>
        LET page == Unwrap(last.page)
            F == pre.allocated + 1
        IN  /\ last.result = "Ok"
            /\ allocated = pre.allocated + 1
            /\ page_info[F] = [refcount |-> 1, cow_refcount |-> 1]
            /\ addr_spaces[last.s].table[page].frame = F
            /\ ~addr_spaces[last.s].table[page].flags.write

\* The observed fault is an access the grant permits to a page of an Allocated
\* grant that is mapped to a frame.
FaultPermitted ==
    /\ last.op = "fault" /\ FaultInGrant
    /\ (last.access = "Write" => FaultGrantFlags.write)
    /\ (last.access = "InstrFetch" => FaultGrantFlags.execute)
MappedAllocatedCase ==
    /\ FaultPermitted
    /\ ProviderAt(pre.spaces[last.s].grants, Unwrap(last.page)) = << "Allocated" >>
    /\ IsSome(FaultedPTE)
\* Every page table entry but that of the faulting page is as it was.
OtherPTEsUnchanged ==
    \A t \in DOMAIN addr_spaces :
        LET faulted == IF t = last.s THEN {Unwrap(last.page)} ELSE {}
        IN  /\ DOMAIN addr_spaces[t].table \ faulted = DOMAIN pre.spaces[t].table \ faulted
            /\ \A p \in DOMAIN addr_spaces[t].table \ faulted :
                  addr_spaces[t].table[p] = pre.spaces[t].table[p]

\* C21: a fault on a page of an Allocated grant that is mapped to a frame F
\* keeps F when no CoW break is needed. With cow_refcount = 1, in any access
\* mode, no frame is allocated, no count changes and the entry takes the flags
\* of the grant; with cow_refcount > 1 and a Read or InstrFetch, F stays mapped
\* read-only and no count changes.
C21_KeepFrame ==
    MappedAllocatedCase =>
        LET page == Unwrap(last.page)
            F == Unwrap(FaultedPTE).frame
            entry == addr_spaces[last.s].table[page]
            kept == /\ last.result = "Ok"
                    /\ allocated = pre.allocated
                    /\ page_info = pre.page_info
                    /\ entry.frame = F
                    /\ OtherPTEsUnchanged
        IN  /\ pre.page_info[F].cow_refcount = 1 => kept /\ entry.flags = FaultGrantFlags
            /\ (pre.page_info[F].cow_refcount > 1 /\ last.access # "Write")
                  => kept /\ ~entry.flags.write

\* A Write fault found the page mapped read-only to a frame of cow_refcount 1
\* and of a writable grant, and made the entry writable.
C21_Witness ==
    /\ MappedAllocatedCase /\ last.access = "Write"
    /\ pre.page_info[Unwrap(FaultedPTE).frame].cow_refcount = 1
    /\ ~Unwrap(FaultedPTE).flags.write
    /\ addr_spaces[last.s].table[Unwrap(last.page)].flags.write

PhysBorrowedFaultCase ==
    /\ FaultPermitted
    /\ ProviderAt(pre.spaces[last.s].grants, Unwrap(last.page))[1] = "PhysBorrowed"
BorrowedOk == last.op = "mmap_multiple" /\ last.result = "Ok"
\* The observed borrow took exactly the pages of one PhysBorrowed grant of the
\* source.
BorrowedWholePhysGrant ==
    /\ BorrowedOk
    /\ last.builder.src_base \in DOMAIN pre.spaces[last.builder.src].grants.inner
    /\ LET src_grant == pre.spaces[last.builder.src].grants.inner[last.builder.src_base]
       IN  src_grant.provider.kind = "PhysBorrowed" /\ src_grant.page_count = last.span.count

\* C22: a fault at page p of a PhysBorrowed grant at base g with frame base B
\* maps p to frame B + (p - g) with the flags of the grant and changes no
\* count; and after an address space has borrowed the pages of a PhysBorrowed
\* grant of frames [P, P + count) to V', a fault at V' + i maps frame P + i.
C22_PhysBorrowedFault ==
    /\ PhysBorrowedFaultCase =>
          LET page == Unwrap(last.page)
              ug == pre.spaces[last.s].grants
              g == GrantAt(ug, page)
          IN  /\ last.result = "Ok"
              /\ addr_spaces[last.s].table[page]
                    = PTE(ug.inner[g].provider.base + (page - g), ug.inner[g].flags)
              /\ page_info = pre.page_info /\ allocated = pre.allocated
              /\ OtherPTEsUnchanged
    /\ BorrowedWholePhysGrant =>
          LET P == pre.spaces[last.builder.src].grants.inner[last.builder.src_base].provider.base
              V2 == Unwrap(last.ret)
          IN  \A i \in 0..(last.span.count - 1) :
                  LET r == try_correcting_page_tables(St, last.s, V2 + i, "Read")
                  IN  /\ r.result = "Ok"
                      /\ r.st.spaces[last.s].table[V2 + i].frame = P + i
                      /\ r.st.page_info = page_info

\* Address space 1 has borrowed the whole user range of physical frames of
\* address space 2, and a fault two pages above the base mapped the third frame.
C22_Witness ==
    /\ PhysBorrowedFaultCase /\ last.s = 1 /\ last.page = Some(2)
    /\ pre.spaces[1].grants.inner = pre.spaces[2].grants.inner
    /\ 0 \in DOMAIN pre.spaces[1].grants.inner
    /\ pre.spaces[1].grants.inner[0].page_count = UserPages
    /\ addr_spaces[1].table[2].frame = PhysFrames + 2

\* The observed fault is a permitted access to a page of an External grant of
\* another address space; the source page, and the entry the source has for it.
ExternalFaultCase ==
    /\ FaultPermitted
    /\ ProviderAt(pre.spaces[last.s].grants, Unwrap(last.page))[1] = "External"
    /\ ProviderAt(pre.spaces[last.s].grants, Unwrap(last.page))[2] \in DOMAIN pre.spaces \ {last.s}
ExternalSource == ProviderAt(pre.spaces[last.s].grants, Unwrap(last.page))[2]
ExternalSourcePage == ProviderAt(pre.spaces[last.s].grants, Unwrap(last.page))[3]
ExternalSourcePTE == translate(pre.spaces[ExternalSource].table, ExternalSourcePage)

\* C23: a fault at a page of an External grant whose source page is mapped in
\* the source address space to frame F maps the page to F, adds exactly one to
\* the refcount of F, and leaves the cow_refcount of F and the page table of the
\* source as they were.
C23_ExternalMapped ==
    (ExternalFaultCase /\ IsSome(ExternalSourcePTE)) =>
        LET F == Unwrap(ExternalSourcePTE).frame
        IN  /\ last.result = "Ok"
            /\ addr_spaces[last.s].table[Unwrap(last.page)].frame = F
            /\ page_info[F].refcount = pre.page_info[F].refcount + 1
            /\ page_info[F].cow_refcount = pre.page_info[F].cow_refcount
            /\ addr_spaces[ExternalSource].table = pre.spaces[ExternalSource].table

\* C24: a fault at page p of an External grant whose source page is not mapped
\* in the source address space allocates one frame and maps it at p in the
\* faulting address space, writable only when the access is a Write; no other
\* page of the faulting address space gains a mapping.
C24_ExternalUnmapped ==
    (ExternalFaultCase /\ ~IsSome(ExternalSourcePTE) /\ can_allocate(pre)) =>
        LET page == Unwrap(last.page)
            F == pre.allocated + 1
        IN  /\ last.result = "Ok"
            /\ allocated = pre.allocated + 1
            /\ addr_spaces[last.s].table[page].frame = F
            /\ addr_spaces[last.s].table[page].flags.write => last.access = "Write"
            /\ DOMAIN addr_spaces[last.s].table \subseteq DOMAIN pre.spaces[last.s].table \cup {page}

\* C25: munmap of a range that covers a file-backed grant returns, and, once
\* the write lock of the address space is released, forwards funmap with the
\* unmapped intersection of that grant to the scheme and closes its descriptor.
\* Checked for the munmap of a file-backed grant that mmap has just inserted.
C25_MunmapFmap ==
    (last.op = "mmap" /\ last.result = "Ok" /\ last.builder.kind = "fmap") =>
        /\ munmap(addr_spaces[last.s], last.span).result = "Ok"
        /\ munmap_notify_files(addr_spaces[last.s], last.span)
              = << [provider |-> Fmap, intersection |-> last.span] >>


\* C26: dropping an address space that still holds grants completes without
\* the assertion of GrantInfo's drop firing: every remaining grant is unmapped
\* (one unmap event per grant, its mapped bit cleared) before the page-table
\* frame is released. Checked for the drop of every address space that a
\* successful operation left with at least one grant.
C26_DropUnmapsGrants ==
    \A s \in DOMAIN addr_spaces :
        (last.op # "new" /\ last.result = "Ok" /\ DOMAIN addr_spaces[s].grants.inner # {}) =>
            LET dropped == drop_addrspace(addr_spaces[s])
            IN  /\ dropped.result = "Ok"
                /\ \A base \in DOMAIN dropped.grants : ~dropped.grants[base].mapped
                /\ dropped.events[Len(dropped.events)] = "table_released"
                /\ Len(dropped.events) = Cardinality(DOMAIN addr_spaces[s].grants.inner) + 1


\* C28: no address space holds an External grant whose address_space is that
\* same address space, whatever sequence of borrow, borrow_grant and faults
\* has run.
C28_NoSelfExternal ==
    \A s \in DOMAIN addr_spaces :
        \A base \in DOMAIN addr_spaces[s].grants.inner :
            LET provider == addr_spaces[s].grants.inner[base].provider
            IN  provider.kind = "External" => provider.address_space # s


\* The handler of s waits for a read lock whose holder waits in turn, n times
\* over: with n above the number of handlers, the wait is for ever.
RECURSIVE WaitsForEver(_, _)
WaitsForEver(s, n) ==
    /\ handlers[s].pc = "read"
    /\ ~Unlocked(handlers[s].foreign)
    /\ (n = 0 \/ WaitsForEver(handlers[s].foreign, n - 1))

\* C27: page-fault handling never deadlocks: a handler that holds the write
\* lock of its own address space and waits for the read lock of the External
\* source is never in a wait that cannot end (every holder it waits for able
\* to return), whatever External grants borrow, borrow_grant and try_clone
\* have made and whichever contexts fault concurrently.
C27_NoDeadlock ==
    \A s \in DOMAIN handlers : ~WaitsForEver(s, NSpaces)


\* The flush tokens of the source side that the observed operation produced
\* and those it handed to its flusher: for munmap and mprotect, over the part
\* of every grant inside the requested span; for try_clone, over every
\* Allocated grant of the parent.
AllFlush(parts) ==
    [produced |-> UNION {part.produced : part \in parts},
     consumed |-> UNION {part.consumed : part \in parts}]
RequestedParts ==
    LET regions == regions_of(pre.spaces[last.s].grants, last.span)
    IN  {SpanPages(intersection(regions[i], last.span)) : i \in DOMAIN regions}
FlushTokens ==
    LET as == pre.spaces[last.s]
    IN  CASE last.op = "munmap" ->
               AllFlush({unmap_flush(as.table, pages) : pages \in RequestedParts})
          [] last.op = "mprotect" ->
               AllFlush({remap_flush(as.table, pages) : pages \in RequestedParts})
          [] last.op = "try_clone" ->
               AllFlush({cow_flush(as.table, SpanPages(PageSpan(base, as.grants.inner[base].page_count))) :
                           base \in {b \in DOMAIN as.grants.inner :
                                       as.grants.inner[b].provider.kind = "Allocated"}})
          [] OTHER -> AllFlush({})

\* C29: munmap, mprotect and try_clone hand every flush token that the removal
\* or the write-protection of a page-table entry produced to the flusher
\* before they return: none is dropped unconsumed.
C29_FlushConsumed ==
    (last.op \in {"munmap", "mprotect", "try_clone"} /\ last.result = "Ok") =>
        FlushTokens.produced \subseteq FlushTokens.consumed


\* What a fault at page p of the grant (grant_base, info) consults: the frame
\* of a PhysBorrowed grant, the page of the address space an External grant
\* names, the page itself for the other providers.
Resolves(info, grant_base, p) ==
    CASE info.provider.kind = "PhysBorrowed" ->
           << "frame", 0, info.provider.base + (p - grant_base) >>
      [] info.provider.kind = "External" ->
           << "page", info.provider.address_space, info.provider.src_base + (p - grant_base) >>
      [] OTHER -> << "own", 0, p >>

\* The observed operation is an mmap_multiple that borrowed a range with no
\* file-backed grant in it, and found room for it.
BorrowCase ==
    /\ last.op = "mmap_multiple" /\ last.builder.kind = "borrow"
    /\ last.result \in {"Ok", "panic"}
    /\ ~borrow_panics(pre.spaces[last.builder.src], PageSpan(last.builder.src_base, last.span.count))

\* C30: Grant::borrow of [src_base, src_base + count) into dst_base gives the
\* destination one grant per source grant that intersects the range; the new
\* grants lie inside [dst_base, dst_base + count), and page dst_base + i is
\* granted exactly when source page src_base + i is, and then resolves to
\* what backs src_base + i: that page of the source address space for an
\* Allocated source grant, the same frame or foreign page as the source grant
\* otherwise. It holds for every src_base, also one inside a source grant.
C30_BorrowPlacement ==
    BorrowCase =>
        LET src == last.builder.src
            src_base == last.builder.src_base
            dst_base == last.span.base
            src_grants == pre.spaces[src].grants
            dst_grants == addr_spaces[last.s].grants
            new_bases == DOMAIN dst_grants.inner \ DOMAIN pre.spaces[last.s].grants.inner
        IN  /\ last.result = "Ok"
            /\ Cardinality(new_bases)
                  = Len(conflicts(src_grants, PageSpan(src_base, last.span.count)))
            /\ \A base \in new_bases :
                  /\ dst_base <= base
                  /\ base + dst_grants.inner[base].page_count <= dst_base + last.span.count
            /\ \A i \in 0 .. (last.span.count - 1) :
                  LET src_found == contains(src_grants, src_base + i)
                      dst_found == contains(dst_grants, dst_base + i)
                      src_info == src_grants.inner[Unwrap(src_found)]
                      dst_info == dst_grants.inner[Unwrap(dst_found)]
                  IN  IF IsSome(src_found)
                      THEN /\ IsSome(dst_found)
                           /\ Unwrap(dst_found) \in new_bases
                           /\ Resolves(dst_info, Unwrap(dst_found), dst_base + i)
                                 = IF src_info.provider.kind = "Allocated"
                                   THEN << "page", src, src_base + i >>
                                   ELSE Resolves(src_info, Unwrap(src_found), src_base + i)
                      ELSE ~IsSome(dst_found)


\* C31: every GrantInfo that a UserGrants holds is mapped and has at least one
\* page, in every state that mmap, mprotect, munmap and try_clone reach: the
\* pieces that extract gives back are mapped and non-empty, and an unmapped
\* grant is never put back.
C31_GrantsMapped ==
    \A s \in DOMAIN addr_spaces :
        \A base \in DOMAIN addr_spaces[s].grants.inner :
            /\ addr_spaces[s].grants.inner[base].mapped
            /\ addr_spaces[s].grants.inner[base].page_count > 0

\* munmap or mprotect cut the middle out of a grant, and both outer pieces
\* went back into the UserGrants.
C31_Witness ==
    /\ last.op \in {"munmap", "mprotect"} /\ last.result = "Ok"
    /\ \E base \in DOMAIN pre.spaces[last.s].grants.inner :
          /\ base < last.span.base
          /\ SpanEnd(last.span) < base + pre.spaces[last.s].grants.inner[base].page_count
          /\ base \in DOMAIN addr_spaces[last.s].grants.inner
          /\ SpanEnd(last.span) \in DOMAIN addr_spaces[last.s].grants.inner


\* The holes that have page_count pages at or above min, by their offsets, and
\* what first fit gives for them: the span at the start of the usable part of
\* the lowest one.
FittingHoles(ug, min, page_count) ==
    {h \in DOMAIN ug.holes :
        /\ h + ug.holes[h] > min
        /\ h + ug.holes[h] - cmp_max(h, min) >= page_count * PAGE_SIZE}
FirstFit(ug, min, page_count) ==
    LET fitting == FittingHoles(ug, min, page_count)
    IN  IF fitting = {} THEN None
        ELSE Some([start |-> cmp_max(MinOf(fitting), min), count |-> page_count])
FoundFree ==
    IF IsSome(last.ret)
    THEN Some([start |-> start_address(Unwrap(last.ret).base), count |-> Unwrap(last.ret).count])
    ELSE None

\* C32: find_free(min, count) is first fit in ascending address order: it
\* returns count pages that start at max(hole_start, min) of the lowest hole
\* whose part at or above min has count pages, and None only when there is no
\* such hole.
C32_FirstFit ==
    last.op = "find_free" => FoundFree = FirstFit(UG, Unwrap(last.page), last.span.count)


\* The bases of the grants whose pages meet the span, in ascending order.
Intersecting(ug, span) ==
    Ascending({b \in DOMAIN ug.inner :
                 SpanPages(PageSpan(b, ug.inner[b].page_count)) \cap SpanPages(span) # {}})

\* C33: for a non-empty span, conflicts(span) yields exactly the grants whose
\* page range intersects the span, in ascending order of base: a grant that
\* begins below span.base and reaches into the span is among them, a grant
\* that does not intersect is not. find_free_at with a hint and munmap,
\* mprotect ask conflicts for the span they were given.
C33_Conflicts ==
    \A sp \in Spans : conflicts(UG, sp) = Intersecting(UG, sp)

\* Two grants meet a span, and the first of them begins below its base.
C33_Witness ==
    \E sp \in Spans :
        /\ Len(conflicts(UG, sp)) = 2
        /\ conflicts(UG, sp)[1] < sp.base


\* No hole is empty, and no hole ends where another one begins.
MaximalHoles(ug) ==
    /\ \A h \in DOMAIN ug.holes : ug.holes[h] > 0
    /\ \A h1 \in DOMAIN ug.holes, h2 \in DOMAIN ug.holes : h1 + ug.holes[h1] # h2

\* C34: holes are maximal in every reachable state: every hole has a size
\* above zero and no hole ends exactly where another begins; remove(base)
\* leaves the freed span inside one hole, which begins where the hole that
\* ended at the span's start began and ends where the hole that began at its
\* end ended.
C34_MaximalHoles ==
    /\ MaximalHoles(UG)
    /\ (last.op = "remove" /\ last.result = "Some") =>
          LET old == pre.spaces[1].grants.holes
              freed_start == start_address(last.span.base)
              freed_end == start_address(SpanEnd(last.span))
              ending == {h \in DOMAIN old : h + old[h] = freed_start}
              hole_start == IF ending = {} THEN freed_start ELSE MinOf(ending)
              hole_end == IF freed_end \in DOMAIN old THEN freed_end + old[freed_end] ELSE freed_end
          IN  /\ hole_start \in DOMAIN UG.holes
              /\ UG.holes[hole_start] = hole_end - hole_start

\* remove freed a grant that had a hole on either side.
C34_Witness ==
    /\ last.op = "remove" /\ last.result = "Some"
    /\ start_address(SpanEnd(last.span)) \in DOMAIN pre.spaces[1].grants.holes
    /\ \E h \in DOMAIN pre.spaces[1].grants.holes :
          h + pre.spaces[1].grants.holes[h] = start_address(last.span.base)
    /\ Cardinality(DOMAIN UG.holes) = Cardinality(DOMAIN pre.spaces[1].grants.holes) - 1


\* C35: copy-on-write isolation: in every state that faults, try_clone,
\* mprotect and munmap reach, no entry of any address space maps a frame whose
\* cow_refcount is above 1 with write permission.
C35_CowIsolation ==
    \A s \in DOMAIN addr_spaces :
        \A page \in DOMAIN addr_spaces[s].table :
            LET pte == addr_spaces[s].table[page]
            IN  (has_page_info(pte.frame) /\ page_info[pte.frame].cow_refcount > 1)
                    => ~pte.flags.write


\* C36: in every reachable state, every page that has an entry in the page
\* table of an address space lies inside one of the grants of that address
\* space: faults, borrows, mprotect and munmap leave no mapping outside every
\* grant.
C36_MappedInsideGrants ==
    \A s \in DOMAIN addr_spaces :
        \A page \in DOMAIN addr_spaces[s].table :
            IsSome(contains(addr_spaces[s].grants, page))


\* C37: splitting an External grant keeps, for every page that stays granted,
\* the source page of the source address space that a fault at the page
\* resolves to: after a successful mprotect or munmap, every page of an
\* External grant that is still granted consults the same page of the same
\* address space as before.
C37_SplitExternal ==
    (last.op \in {"mprotect", "munmap"} /\ last.result = "Ok") =>
        LET ug0 == pre.spaces[last.s].grants
            ug1 == addr_spaces[last.s].grants
        IN  \A p \in GrantedPages(ug0) \cap GrantedPages(ug1) :
                ProviderAt(ug0, p)[1] = "External" => ProviderAt(ug1, p) = ProviderAt(ug0, p)


\* The grants of a PhysBorrowed provider that some address space holds, and
\* the non-empty spans inside a grant.
PhysBorrowedGrants ==
    UNION {{Grant(base, addr_spaces[s].grants.inner[base]) :
              base \in {b \in DOMAIN addr_spaces[s].grants.inner :
                          addr_spaces[s].grants.inner[b].provider.kind = "PhysBorrowed"}} :
           s \in DOMAIN addr_spaces}
SubSpans(grant) ==
    {sp \in Spans : grant.base <= sp.base /\ SpanEnd(sp) <= SpanEnd(GrantSpan(grant))}
PiecesOfExtract(ex) ==
    {ex.this} \cup (IF IsSome(ex.before) THEN {Unwrap(ex.before)} ELSE {})
              \cup (IF IsSome(ex.after) THEN {Unwrap(ex.after)} ELSE {})

\* C38: extract of any contained span out of a PhysBorrowed grant with frame
\* base B and base g gives pieces (before, middle, after) that are PhysBorrowed,
\* cover the pages of the grant, and map every page p of theirs to frame
\* B + (p - g), as the grant did.
C38_SplitPhysBorrowed ==
    \A grant \in PhysBorrowedGrants :
        \A span \in SubSpans(grant) :
            LET pieces == PiecesOfExtract(extract(grant, span))
            IN  /\ UNION {SpanPages(GrantSpan(piece)) : piece \in pieces}
                      = SpanPages(GrantSpan(grant))
                /\ \A piece \in pieces :
                      /\ piece.info.provider.kind = "PhysBorrowed"
                      /\ \A p \in SpanPages(GrantSpan(piece)) :
                            piece.info.provider.base + (p - piece.base)
                                = grant.info.provider.base + (p - grant.base)

\* A PhysBorrowed grant of at least three pages, which has a span that leaves a
\* piece on both sides, was reached by borrowing part of another PhysBorrowed
\* grant.
C38_Witness ==
    \E grant \in PhysBorrowedGrants :
        /\ grant.info.page_count >= 3
        /\ grant.info.provider.base > PhysFrames
        /\ \E span \in SubSpans(grant) :
              Cardinality(PiecesOfExtract(extract(grant, span))) = 3


\* C39: one run of the handler resolves the fault: whenever
\* try_correcting_page_tables(p, access) returns Ok, the page table of the
\* faulting address space has an entry for p that permits the access, writable
\* after a Write fault and executable after an InstrFetch fault.
C39_FaultResolved ==
    (last.op = "fault" /\ last.result = "Ok") =>
        LET page == Unwrap(last.page)
            table == addr_spaces[last.s].table
        IN  /\ page \in DOMAIN table
            /\ last.access = "Write" => table[page].flags.write
            /\ last.access = "InstrFetch" => table[page].flags.execute

\* A Write fault on a page that was mapped read-only returned Ok.
C39_Witness ==
    /\ last.op = "fault" /\ last.result = "Ok" /\ last.access = "Write"
    /\ Unwrap(last.page) \in DOMAIN pre.spaces[last.s].table
    /\ ~pre.spaces[last.s].table[Unwrap(last.page)].flags.write


\* C40: set_fx_regs lets the caller change the low 80 bits of every st_space
\* entry only: whatever registers the caller gives, the reserved upper 48 bits
\* of every st_space entry and the _reserved field of the stored state are
\* after the call what they were before it, and the low bits are the
\* caller's.
C40_FxReservedKept ==
    last.op = "set_fx_regs" =>
        LET old == Unwrap(last.ret).old
            new == Unwrap(last.ret).regs
        IN  /\ kfx.reserved = old.reserved
            /\ \A i \in DOMAIN kfx.st_space :
                  /\ kfx.st_space[i].reserved = old.st_space[i].reserved
                  /\ kfx.st_space[i].low = new.st_space[i].low

====
